---- MODULE Spec2Model ----
(***************************************************************************)
(* A model of the three notebooks of siegelzero/morsels:                   *)
(*   - Integer Roots and Perfect Powers  (newton, binary, integer_sqrt,    *)
(*     integer_kth_root)                                                   *)
(*   - Prime Sieves  (eratosthenes, eratosthenes2, luo, sieve_interval)    *)
(*   - Counting Squarefree Numbers  (primes, Q_sieve, Q_segmented, Q_memo, *)
(*     Q_dp, Q_moebius and the brute-force oracle test_count)              *)
(*                                                                         *)
(* The functions are pure except Q_memo, whose default argument            *)
(* cache={1: 1} is one dict shared by every call.  The state of the model  *)
(* is that dict plus a record of the last call made (operation, arguments, *)
(* outcome).  An outcome is a record [exc, val]: exc = "none" and val the  *)
(* returned value, or exc the name of the Python exception raised.         *)
(*                                                                         *)
(* Python lists are sequences (1-based); numpy arrays are functions on     *)
(* 0..size-1 so that an index of the model is the index of the code.       *)
(***************************************************************************)
EXTENDS Integers, Sequences, FiniteSets, TLC

VARIABLES
    input,   \* the values the caller holds when the session starts
    op,      \* name of the last operation called ("init" before any call)
    args,    \* its arguments, a tuple
    ret,     \* its outcome, [exc |-> ..., val |-> ...]
    cache,   \* the dict bound to Q_memo's default parameter `cache`
    calls,   \* number of Q_memo calls made so far in this session
    pc,      \* where a root function run step by step stands: "idle" before
             \* the call, "loop" at the head of its while loop, "done" after
    iter_x,  \* the local x of newton and integer_kth_root (hi of
             \* integer_sqrt and binary) while the loop runs
    iter_xs, \* every value assigned to it so far in this call, in order
    locals   \* the local variables of a sieve or counting function run
             \* pass by pass of its loop, a record (<<>> outside such a run)

vars == <<input, op, args, ret, cache, calls, pc, iter_x, iter_xs, locals>>

(***************************************************************************)
(* Bounds of the model.                                                    *)
(***************************************************************************)
\* the smallest argument drawn is -MaxNeg
MaxNeg == 2
\* largest n given to the root functions
MaxN == 200
\* largest k given to integer_kth_root
MaxK == 4
\* largest bound given to the sieves
MaxP == 80
\* largest lower end given to the segmented sieve
MaxA == 12
\* largest x given to the stateless counting functions
MaxX == 60
\* largest x given to Q_memo in a session of several calls
MaxMemoX == 20
\* number of Q_memo calls in one session
MaxCalls == 3

(***************************************************************************)
(* Outcomes, and Python/numpy primitives.                                  *)
(***************************************************************************)
Return(v) == [exc |-> "none", val |-> v]

Raise(e) == [exc |-> e, val |-> e]

Ok(r) == r.exc = "none"

Min(a, b) == IF a <= b THEN a ELSE b

Max(a, b) == IF a >= b THEN a ELSE b

\* a ** e for e >= 0
RECURSIVE Pow(_, _)
Pow(a, e) == IF e <= 0 THEN 1 ELSE a * Pow(a, e - 1)

\* int.bit_length: the number of bits of |n|
RECURSIVE bit_length(_)
bit_length(n) ==
    IF n < 0 THEN bit_length(-n)
    ELSE IF n = 0 THEN 0 ELSE 1 + bit_length(n \div 2)

\* list(range(start, stop, step)) for step > 0
range(start, stop, step) ==
    IF start >= stop THEN <<>>
    ELSE <<>> \o [i \in 1 .. (stop - start + step - 1) \div step |->
                      start + (i - 1) * step]

\* the set of elements of a list
Elems(s) == { s[i] : i \in 1 .. Len(s) }

\* sum of a list of integers
RECURSIVE SumSeq(_)
SumSeq(s) == IF s = <<>> THEN 0 ELSE Head(s) + SumSeq(Tail(s))

\* the size of an array
Size(block) == Cardinality(DOMAIN block)

\* np.ones(m, dtype=bool), for m >= 0 (numpy raises ValueError for m < 0)
np_ones(m) == [i \in 0 .. m - 1 |-> TRUE]

\* where a slice start::step begins in an array of the given size: a negative
\* start counts from the end, and is clipped at 0
SliceStart(size, start) == IF start < 0 THEN Max(start + size, 0) ELSE start

\* the indices selected by block[start::step], step > 0
SliceIndices(block, start, step) ==
    LET first == SliceStart(Size(block), start)
    IN  { i \in DOMAIN block : i >= first /\ (i - first) % step = 0 }

\* block[start::step] = v
SetSlice(block, start, step, v) ==
    LET selected == SliceIndices(block, start, step)
    IN  [i \in DOMAIN block |-> IF i \in selected THEN v ELSE block[i]]

\* block[start::step] *= -1
NegateSlice(block, start, step) ==
    LET selected == SliceIndices(block, start, step)
    IN  [i \in DOMAIN block |-> IF i \in selected THEN 0 - block[i] ELSE block[i]]

\* block[i] = v for an index 0 <= i < size
SetItem(block, i, v) == [block EXCEPT ![i] = v]

\* np.flatnonzero(block).tolist() and np.where(block)[0].tolist(): the indices
\* of the True entries, ascending
flatnonzero(block) ==
    SelectSeq([j \in 1 .. Size(block) |-> j - 1], LAMBDA i : block[i])

\* np.count_nonzero(block)
count_nonzero(block) == Cardinality({ i \in DOMAIN block : block[i] })

\* np.flatnonzero(block).tolist() and np.count_nonzero(block) of an array
\* whose size is at hand: the array is read once per index and its domain
\* is not enumerated, which keeps an array of 10**6 flags tractable
flatnonzero_sized(block, size) ==
    SelectSeq([j \in 1 .. size |-> j - 1], LAMBDA i : block[i])

count_nonzero_sized(block, size) ==
    Cardinality({ i \in 0 .. size - 1 : block[i] })

\* np.sum(block) of an integer array (of the empty array: 0.0, which Python
\* compares equal to 0)
RECURSIVE SumUpTo(_, _)
SumUpTo(block, m) == IF m <= 0 THEN 0 ELSE block[m - 1] + SumUpTo(block, m - 1)

np_sum(block) == SumUpTo(block, Size(block))

(***************************************************************************)
(* Integer Roots and Perfect Powers                                        *)
(***************************************************************************)
\* newton, lines 49-56: the loop from the current x
RECURSIVE newton_loop(_, _)
newton_loop(n, x) ==
    IF x = 0 THEN Raise("ZeroDivisionError")
    ELSE LET y == (x + n \div x) \div 2
         IN  IF y < x THEN newton_loop(n, y) ELSE Return(x)

\* newton with the initial estimate 2**(bit_length // 2)
newton_mut(n) == newton_loop(n, Pow(2, bit_length(n) \div 2))

newton(n) == newton_loop(n, Pow(2, (bit_length(n) + 1) \div 2))

\* binary, lines 80-84: the loop from the current (hi, lo)
RECURSIVE binary_loop(_, _, _)
binary_loop(n, hi, lo) ==
    IF lo < hi
    THEN LET h == (hi + lo) \div 2
         IN  IF h = 0 THEN Raise("ZeroDivisionError")
             ELSE binary_loop(n, h, n \div h)
    ELSE Return(hi)

binary(n) ==
    LET hi == Pow(2, (bit_length(n) + 1) \div 2)
    IN  binary_loop(n, hi, n \div hi)

integer_sqrt_mut(n) ==
    IF n < 0 THEN Raise("ValueError")
    ELSE IF n <= 1 THEN Return(n)
    ELSE LET hi == Pow(2, bit_length(n) \div 2)
         IN  binary_loop(n, hi, n \div hi)

integer_sqrt(n) ==
    IF n < 0 THEN Raise("ValueError")
    ELSE IF n <= 1 THEN Return(n)
    ELSE LET hi == Pow(2, (bit_length(n) + 1) \div 2)
         IN  binary_loop(n, hi, n \div hi)

\* integer_kth_root, lines 350-357: the loop from the current x
RECURSIVE kth_root_loop(_, _, _)
kth_root_loop(n, k, x) ==
    IF Pow(x, k - 1) = 0 THEN Raise("ZeroDivisionError")
    ELSE LET y == ((k - 1) * x + n \div Pow(x, k - 1)) \div k
         IN  IF y < x THEN kth_root_loop(n, k, y) ELSE Return(x)

integer_kth_root_mut(n, k) ==
    IF n < 0 THEN Raise("ValueError")
    ELSE IF k < 1 THEN Raise("ValueError")
    ELSE IF n <= 1 THEN Return(n)
    ELSE kth_root_loop(n, k, Pow(2, bit_length(n) \div k))

integer_kth_root(n, k) ==
    IF n < 0 THEN Raise("ValueError")
    ELSE IF k < 1 THEN Raise("ValueError")
    ELSE IF n <= 1 THEN Return(n)
    ELSE kth_root_loop(n, k, Pow(2, bit_length(n) \div k + 1))

\* the value of integer_sqrt where it is used as an expression; the callers
\* below pass it n >= 0 only
isqrt(n) == integer_sqrt(n).val

(***************************************************************************)
(* Calls of the root functions.  The caller holds n and k; newton and      *)
(* binary have no argument check and are called for n >= 0 only.           *)
(***************************************************************************)
\* the state before any call: the default cache as the def statement built it
Fresh ==
    /\ op = "init"
    /\ args = <<>>
    /\ ret = Return(0)
    /\ cache = (1 :> 1)
    /\ calls = 0
    /\ pc = "idle"
    /\ iter_x = 0
    /\ iter_xs = <<>>
    /\ locals = <<>>

InitRoot ==
    /\ input \in [n : -MaxNeg .. MaxN, k : -MaxNeg .. MaxK]
    /\ Fresh

Call_integer_sqrt ==
    /\ op' = "integer_sqrt"
    /\ args' = <<input.n>>
    /\ ret' = integer_sqrt(input.n)
    /\ UNCHANGED <<input, cache, calls, pc, iter_x, iter_xs, locals>>

Call_integer_kth_root ==
    /\ op' = "integer_kth_root"
    /\ args' = <<input.n, input.k>>
    /\ ret' = integer_kth_root(input.n, input.k)
    /\ UNCHANGED <<input, cache, calls, pc, iter_x, iter_xs, locals>>

Call_newton ==
    /\ input.n >= 0
    /\ op' = "newton"
    /\ args' = <<input.n>>
    /\ ret' = newton(input.n)
    /\ UNCHANGED <<input, cache, calls, pc, iter_x, iter_xs, locals>>

Call_binary ==
    /\ input.n >= 0
    /\ op' = "binary"
    /\ args' = <<input.n>>
    /\ ret' = binary(input.n)
    /\ UNCHANGED <<input, cache, calls, pc, iter_x, iter_xs, locals>>

NextRoot ==
    \/ Call_integer_sqrt
    \/ Call_integer_kth_root
    \/ Call_newton
    \/ Call_binary

SpecRoot == InitRoot /\ [][NextRoot]_vars

\* C5: for every n >= 0 and k >= 1, integer_kth_root(n, k) returns the
\* integer m with m^k <= n < (m + 1)^k.
C5_KthRootIsFloorRoot ==
    (op = "integer_kth_root" /\ args[1] >= 0 /\ args[2] >= 1) =>
        /\ Ok(ret)
        /\ ret.val >= 0
        /\ Pow(ret.val, args[2]) <= args[1]
        /\ args[1] < Pow(ret.val + 1, args[2])

C5_Witness ==
    /\ op = "integer_kth_root"
    /\ args = <<125, 3>>
    /\ ret = Return(5)

\* C6: for every n >= 0, integer_sqrt(n) returns the integer m with
\* m^2 <= n < (m + 1)^2.
C6_SqrtIsFloorRoot ==
    (op = "integer_sqrt" /\ args[1] >= 0) =>
        /\ Ok(ret)
        /\ ret.val >= 0
        /\ ret.val * ret.val <= args[1]
        /\ args[1] < (ret.val + 1) * (ret.val + 1)

C6_Witness ==
    /\ op = "integer_sqrt"
    /\ args = <<120>>
    /\ ret = Return(10)

SquareRootForms == {"binary", "newton"}

\* C16: binary(n) == newton(n) for every n >= 1, and integer_sqrt(n) ==
\* integer_kth_root(n, 2) for every n >= 0: whichever of the two was called,
\* its outcome is a value and is the outcome of the other.
C16_SquareRootFormsAgree ==
    /\ (op \in SquareRootForms /\ args[1] >= 1) =>
           /\ Ok(ret)
           /\ ret = binary(args[1])
           /\ ret = newton(args[1])
    /\ (/\ op \in {"integer_sqrt", "integer_kth_root"}
        /\ args[1] >= 0
        /\ op = "integer_kth_root" => args[2] = 2) =>
           /\ Ok(ret)
           /\ ret = integer_sqrt(args[1])
           /\ ret = integer_kth_root(args[1], 2)

C16_Witness ==
    /\ op = "newton"
    /\ args = <<99>>
    /\ ret = Return(9)
    /\ binary(99) = Return(9)

\* C19: integer_kth_root(100, 3) returns 3, as the docstring example says.
C19_DocstringExample ==
    (op = "integer_kth_root" /\ args = <<100, 3>>) => ret = Return(3)

\* integer_kth_root(100, 3) returns 4: 4**3 = 64 <= 100 < 125 = 5**3
C19_Witness ==
    /\ op = "integer_kth_root"
    /\ args = <<100, 3>>
    /\ ret = Return(4)

(***************************************************************************)
(* The root functions run statement by statement: Enter_f runs f from its  *)
(* first line to the head of its while loop (or to the return or raise     *)
(* that ends the call before the loop), Step_f runs one pass of the loop.  *)
(* iter_xs records the initial estimate and every later assignment to x,   *)
(* so it is empty exactly when the call ended before the estimate.         *)
(***************************************************************************)
\* the call ends with the outcome r
Finish(r) ==
    /\ ret' = r
    /\ pc' = "done"

\* x = v (hi = v in integer_sqrt), at the head of the loop
Assign(v) ==
    /\ iter_x' = v
    /\ iter_xs' = Append(iter_xs, v)
    /\ pc' = "loop"
    /\ UNCHANGED ret

\* integer_kth_root rejecting k < 2, as its message words the check
Enter_integer_kth_root_mut ==
    /\ pc = "idle"
    /\ op' = "integer_kth_root"
    /\ args' = <<input.n, input.k>>
    /\ IF input.n < 0 \/ input.k < 2
       THEN Finish(Raise("ValueError")) /\ UNCHANGED <<iter_x, iter_xs>>
       ELSE IF input.n <= 1
       THEN Finish(Return(input.n)) /\ UNCHANGED <<iter_x, iter_xs>>
       ELSE Assign(Pow(2, bit_length(input.n) \div input.k + 1))
    /\ UNCHANGED <<input, cache, calls, locals>>

\* integer_kth_root with the initial estimate 2**(bit_length // k)
Enter_integer_kth_root_mut_low ==
    /\ pc = "idle"
    /\ op' = "integer_kth_root"
    /\ args' = <<input.n, input.k>>
    /\ IF input.n < 0 \/ input.k < 1
       THEN Finish(Raise("ValueError")) /\ UNCHANGED <<iter_x, iter_xs>>
       ELSE IF input.n <= 1
       THEN Finish(Return(input.n)) /\ UNCHANGED <<iter_x, iter_xs>>
       ELSE Assign(Pow(2, bit_length(input.n) \div input.k))
    /\ UNCHANGED <<input, cache, calls, locals>>

\* integer_kth_root, lines 341-348: the argument checks, the shortcut for
\* n <= 1 and the initial estimate
Enter_integer_kth_root ==
    /\ pc = "idle"
    /\ op' = "integer_kth_root"
    /\ args' = <<input.n, input.k>>
    /\ IF input.n < 0 \/ input.k < 1
       THEN Finish(Raise("ValueError")) /\ UNCHANGED <<iter_x, iter_xs>>
       ELSE IF input.n <= 1
       THEN Finish(Return(input.n)) /\ UNCHANGED <<iter_x, iter_xs>>
       ELSE Assign(Pow(2, bit_length(input.n) \div input.k + 1))
    /\ UNCHANGED <<input, cache, calls, locals>>

\* the loop going on while y <= x
Step_integer_kth_root_mut ==
    /\ pc = "loop"
    /\ op = "integer_kth_root"
    /\ LET n == args[1]
           k == args[2]
       IN  IF Pow(iter_x, k - 1) = 0
           THEN Finish(Raise("ZeroDivisionError")) /\ UNCHANGED <<iter_x, iter_xs>>
           ELSE LET y == ((k - 1) * iter_x + n \div Pow(iter_x, k - 1)) \div k
                IN  IF y <= iter_x
                    THEN Assign(y)
                    ELSE Finish(Return(iter_x)) /\ UNCHANGED <<iter_x, iter_xs>>
    /\ UNCHANGED <<input, op, args, cache, calls, locals>>

\* integer_kth_root, lines 350-357: one pass of the while loop
Step_integer_kth_root ==
    /\ pc = "loop"
    /\ op = "integer_kth_root"
    /\ LET n == args[1]
           k == args[2]
       IN  IF Pow(iter_x, k - 1) = 0
           THEN Finish(Raise("ZeroDivisionError")) /\ UNCHANGED <<iter_x, iter_xs>>
           ELSE LET y == ((k - 1) * iter_x + n \div Pow(iter_x, k - 1)) \div k
                IN  IF y < iter_x
                    THEN Assign(y)
                    ELSE Finish(Return(iter_x)) /\ UNCHANGED <<iter_x, iter_xs>>
    /\ UNCHANGED <<input, op, args, cache, calls, locals>>

\* newton, line 47: the initial estimate; newton checks nothing
Enter_newton ==
    /\ pc = "idle"
    /\ input.n >= 0
    /\ op' = "newton"
    /\ args' = <<input.n>>
    /\ Assign(Pow(2, (bit_length(input.n) + 1) \div 2))
    /\ UNCHANGED <<input, cache, calls, locals>>

\* newton, lines 49-56: one pass of the while loop
Step_newton ==
    /\ pc = "loop"
    /\ op = "newton"
    /\ LET n == args[1]
       IN  IF iter_x = 0
           THEN Finish(Raise("ZeroDivisionError")) /\ UNCHANGED <<iter_x, iter_xs>>
           ELSE LET y == (iter_x + n \div iter_x) \div 2
                IN  IF y < iter_x
                    THEN Assign(y)
                    ELSE Finish(Return(iter_x)) /\ UNCHANGED <<iter_x, iter_xs>>
    /\ UNCHANGED <<input, op, args, cache, calls, locals>>

\* integer_sqrt without the shortcut for n <= 1
Enter_integer_sqrt_mut ==
    /\ pc = "idle"
    /\ op' = "integer_sqrt"
    /\ args' = <<input.n>>
    /\ IF input.n < 0
       THEN Finish(Raise("ValueError")) /\ UNCHANGED <<iter_x, iter_xs>>
       ELSE Assign(Pow(2, (bit_length(input.n) + 1) \div 2))
    /\ UNCHANGED <<input, cache, calls, locals>>

\* integer_sqrt, lines 181-187: the argument check, the shortcut for n <= 1
\* and the initial hi; lo is n // hi whenever the loop head is reached
Enter_integer_sqrt ==
    /\ pc = "idle"
    /\ op' = "integer_sqrt"
    /\ args' = <<input.n>>
    /\ IF input.n < 0
       THEN Finish(Raise("ValueError")) /\ UNCHANGED <<iter_x, iter_xs>>
       ELSE IF input.n <= 1
       THEN Finish(Return(input.n)) /\ UNCHANGED <<iter_x, iter_xs>>
       ELSE Assign(Pow(2, (bit_length(input.n) + 1) \div 2))
    /\ UNCHANGED <<input, cache, calls, locals>>

\* integer_sqrt, lines 189-193: the test lo < hi and one pass of the loop;
\* lo = n // hi raises ZeroDivisionError once hi is 0
Step_integer_sqrt ==
    /\ pc = "loop"
    /\ op = "integer_sqrt"
    /\ LET n == args[1]
       IN  IF iter_x = 0
           THEN Finish(Raise("ZeroDivisionError")) /\ UNCHANGED <<iter_x, iter_xs>>
           ELSE IF n \div iter_x < iter_x
           THEN Assign((iter_x + n \div iter_x) \div 2)
           ELSE Finish(Return(iter_x)) /\ UNCHANGED <<iter_x, iter_xs>>
    /\ UNCHANGED <<input, op, args, cache, calls, locals>>

NextIter ==
    \/ Enter_integer_kth_root
    \/ Step_integer_kth_root
    \/ Enter_newton
    \/ Step_newton
    \/ Enter_integer_sqrt
    \/ Step_integer_sqrt

SpecIter == InitRoot /\ [][NextIter]_vars

\* the interpreter runs the next statement of a call it has begun
SpecIterLive == SpecIter /\ WF_vars(NextIter)

\* the statement-by-statement run ends with the outcome of the function
IterMatchesCall ==
    pc = "done" =>
        /\ op = "integer_kth_root" => ret = integer_kth_root(args[1], args[2])
        /\ op = "newton" => ret = newton(args[1])
        /\ op = "integer_sqrt" => ret = integer_sqrt(args[1])

RootChecks == {"integer_kth_root", "integer_sqrt"}

\* C12: integer_kth_root(n, k) ends with ValueError exactly when n < 0 or
\* k < 1, integer_sqrt(n) exactly when n < 0, and when the error is raised no
\* estimate has been computed and no pass of the loop has run.
C12_ValueErrorExactlyOnBadArguments ==
    (pc = "done" /\ op \in RootChecks) =>
        /\ op = "integer_kth_root" =>
               ((ret = Raise("ValueError")) <=> (args[1] < 0 \/ args[2] < 1))
        /\ op = "integer_sqrt" =>
               ((ret = Raise("ValueError")) <=> (args[1] < 0))
        /\ ret = Raise("ValueError") => (iter_xs = <<>> /\ iter_x = 0)

C12_Witness ==
    /\ pc = "done"
    /\ op = "integer_kth_root"
    /\ args = <<8, 0>>
    /\ ret = Raise("ValueError")
    /\ iter_xs = <<>>

\* C15: for n = 0 and n = 1 and every k >= 1, integer_kth_root(n, k) returns
\* n and integer_sqrt(n) returns n, and no estimate was computed and no pass
\* of the loop ran.
C15_ZeroAndOneReturnedDirectly ==
    (/\ pc = "done"
     /\ op \in RootChecks
     /\ args[1] \in {0, 1}
     /\ op = "integer_kth_root" => args[2] >= 1) =>
        /\ ret = Return(args[1])
        /\ iter_xs = <<>>

C15_Witness ==
    /\ pc = "done"
    /\ op = "integer_kth_root"
    /\ args = <<1, 3>>
    /\ ret = Return(1)
    /\ iter_xs = <<>>

NewtonLoops == {"integer_kth_root", "newton"}

\* the iterate the Newton step computes from v: the y of the loop
NextIterate(v) ==
    IF op = "newton" THEN (v + args[1] \div v) \div 2
    ELSE ((args[2] - 1) * v + args[1] \div Pow(v, args[2] - 1)) \div args[2]

\* the values assigned to x are positive, each is the iterate computed from
\* the one before and smaller than it, and the call returns the last of them,
\* whose iterate is not smaller
DecreasingUntilReturn ==
    (pc # "idle" /\ op \in NewtonLoops /\ iter_xs # <<>>
        /\ (op = "newton" => args[1] >= 1)) =>
        /\ \A i \in 1 .. Len(iter_xs) : iter_xs[i] >= 1
        /\ \A i \in 1 .. Len(iter_xs) - 1 :
               /\ iter_xs[i + 1] < iter_xs[i]
               /\ iter_xs[i + 1] = NextIterate(iter_xs[i])
        /\ pc = "done" =>
               /\ ret = Return(iter_xs[Len(iter_xs)])
               /\ NextIterate(ret.val) >= ret.val

\* C20: the Newton loop of integer_kth_root (n >= 2, k >= 1) and of newton
\* (n >= 1) terminates: the values assigned to x are strictly decreasing
\* positive integers, and the loop, once entered, exits at the first iterate
\* that is not smaller than x, returning that x.
C20_NewtonLoopTerminates ==
    /\ []DecreasingUntilReturn
    /\ []IterMatchesCall
    /\ (pc = "loop" /\ op \in NewtonLoops) ~> (pc = "done")

C20_Witness ==
    /\ pc = "done"
    /\ op = "integer_kth_root"
    /\ args = <<125, 3>>
    /\ iter_xs = <<8, 5>>
    /\ ret = Return(5)

(***************************************************************************)
(* Prime Sieves                                                            *)
(***************************************************************************)
\* one pass of the outer loop marking from k*k + k instead of k*k
eratosthenes_body_mut(block, k) ==
    IF block[k] THEN SetSlice(block, k * k + k, k, FALSE) ELSE block

\* eratosthenes, lines 56-57: one pass of the outer loop
eratosthenes_body(block, k) ==
    IF block[k] THEN SetSlice(block, k * k, k, FALSE) ELSE block

\* eratosthenes, line 55: the outer loop over the list ks of values of k
RECURSIVE eratosthenes_loop(_, _)
eratosthenes_loop(block, ks) ==
    IF ks = <<>> THEN block
    ELSE eratosthenes_loop(eratosthenes_body(block, Head(ks)), Tail(ks))

eratosthenes_mut(n) ==
    IF n + 1 < 0 THEN Raise("ValueError")
    ELSE IF n + 1 < 2 THEN Raise("IndexError")
    ELSE LET block == SetItem(SetItem(np_ones(n + 1), 0, FALSE), 1, FALSE)
         IN  Return(flatnonzero(
                 eratosthenes_loop(block, range(2, isqrt(n), 1))))

\* np.ones(n + 1) raises ValueError for a negative size; the chained
\* assignment block[0] = block[1] = False raises IndexError unless the array
\* has both entries
eratosthenes(n) ==
    IF n + 1 < 0 THEN Raise("ValueError")
    ELSE IF n + 1 < 2 THEN Raise("IndexError")
    ELSE LET block == SetItem(SetItem(np_ones(n + 1), 0, FALSE), 1, FALSE)
         IN  Return(flatnonzero(
                 eratosthenes_loop(block, range(2, isqrt(n) + 1, 1))))

\* primes of the counting notebook: as eratosthenes, but the loop runs to
\* integer_sqrt(n + 1)
primes(n) ==
    IF n + 1 < 0 THEN Raise("ValueError")
    ELSE IF n + 1 < 2 THEN Raise("IndexError")
    ELSE LET block == SetItem(SetItem(np_ones(n + 1), 0, FALSE), 1, FALSE)
         IN  Return(flatnonzero(
                 eratosthenes_loop(block, range(2, isqrt(n + 1) + 1, 1))))

\* eratosthenes2, lines 170-171: one pass of the outer loop
eratosthenes2_body(block, k) ==
    IF block[k \div 2] THEN SetSlice(block, (k * k) \div 2, k, FALSE) ELSE block

RECURSIVE eratosthenes2_loop(_, _)
eratosthenes2_loop(block, ks) ==
    IF ks = <<>> THEN block
    ELSE eratosthenes2_loop(eratosthenes2_body(block, Head(ks)), Tail(ks))

\* np.r_[2, 2*nonzero + 1].tolist()
OddValues(nonzero) == <<2>> \o [j \in 1 .. Len(nonzero) |-> 2 * nonzero[j] + 1]

eratosthenes2(n) ==
    LET block_size == (n + 1) \div 2
    IN  IF block_size < 0 THEN Raise("ValueError")
        ELSE IF block_size < 1 THEN Raise("IndexError")
        ELSE LET block == SetItem(np_ones(block_size), 0, FALSE)
                 ks == range(3, isqrt(n) + 1, 2)
             IN  Return(OddValues(flatnonzero(eratosthenes2_loop(block, ks))))

\* luo, lines 241-248: one pass of the loop; st = [block, c, k, t]
luo_body(st, i) ==
    LET k == 3 - st.k
        c == st.c + 4 * k * i
        t == st.t + 4 * k
        b == c + 2 * i * (3 - k) + 1
    IN  [block |-> IF st.block[i]
                   THEN SetSlice(SetSlice(st.block, c, t, FALSE), b, t, FALSE)
                   ELSE st.block,
         c |-> c, k |-> k, t |-> t]

RECURSIVE luo_loop(_, _)
luo_loop(st, is) ==
    IF is = <<>> THEN st ELSE luo_loop(luo_body(st, Head(is)), Tail(is))

\* (3*i + 1) | 1
WheelValue(i) == IF (3 * i + 1) % 2 = 0 THEN 3 * i + 2 ELSE 3 * i + 1

\* np.r_[2, 3, (3*nonzero + 1) | 1].tolist()
WheelValues(nonzero) ==
    <<2, 3>> \o [j \in 1 .. Len(nonzero) |-> WheelValue(nonzero[j])]

luo(n) ==
    LET block_size == (n + 1) \div 3 + (IF n % 6 = 1 THEN 1 ELSE 0)
    IN  IF block_size < 0 THEN Raise("ValueError")
        ELSE IF block_size < 1 THEN Raise("IndexError")
        ELSE LET block == SetItem(np_ones(block_size), 0, FALSE)
                 st == [block |-> block, c |-> 0, k |-> 1, t |-> 2]
                 is == range(1, isqrt(n) \div 3 + 1, 1)
             IN  Return(WheelValues(flatnonzero(luo_loop(st, is).block)))

\* block_size of sieve_interval, 10**6
sieve_block_size == 1000000

\* the first multiple taken as the multiple of p above start
first_multiple_mut(start, p) == ((start \div p) + 1) * p

\* multiple = ((start // p) + (start % p > 0))*p, line 330 of sieve_interval
\* and line 530 of Q_segmented (there with p2 for p)
first_multiple(start, p) ==
    ((start \div p) + (IF start % p > 0 THEN 1 ELSE 0)) * p

\* for p in ps: block[offset::p] = False, on an array of the given size,
\* with offsets[j] the offset that goes with ps[j].  Every pass writes
\* False only, so after the loop an index is True exactly when it was True
\* before and no slice selects it; firsts[j] is where slice j begins, and
\* slice j selects i when i >= firsts[j] and ps[j] divides i - firsts[j].
marked(block, size, firsts, ps) ==
    [i \in 0 .. size - 1 |->
        block[i] /\ \A j \in 1 .. Len(ps) :
                        (i - firsts[j]) % ps[j] # 0 \/ i < firsts[j]]

mark_slices(block, size, offsets, ps) ==
    marked(block, size,
           <<>> \o [j \in 1 .. Len(ps) |-> SliceStart(size, offsets[j])], ps)

\* multiple - start for every p of ps
slice_offsets(start, ps) ==
    [j \in 1 .. Len(ps) |-> first_multiple(start, ps[j]) - start]

\* sieve_block with the first multiple always taken above start
sieve_block_mut(block, start, ps) ==
    mark_slices(block, Size(block),
                [j \in 1 .. Len(ps) |-> ((start \div ps[j]) + 1) * ps[j] - start], ps)

\* sieve_interval, lines 329-331: the flags of the block at start after the
\* small primes ps have marked it
sieve_block(block, start, ps) ==
    mark_slices(block, Size(block), slice_offsets(start, ps), ps)

\* (start + nonzero).tolist()
Offset(start, nonzero) == [j \in 1 .. Len(nonzero) |-> start + nonzero[j]]

\* the blocks sized to reach the bound b itself
RECURSIVE sieve_blocks_mut(_, _, _)
sieve_blocks_mut(starts, b, small_primes) ==
    IF starts = <<>> THEN <<>>
    ELSE LET start == Head(starts)
             block == np_ones(Min(sieve_block_size, b - start + 1))
         IN  Offset(start, flatnonzero(sieve_block(block, start, small_primes)))
                 \o sieve_blocks_mut(Tail(starts), b, small_primes)

\* sieve_interval, lines 327-335: what the blocks at the given starts yield
RECURSIVE sieve_blocks(_, _, _)
sieve_blocks(starts, b, small_primes) ==
    IF starts = <<>> THEN <<>>
    ELSE LET start == Head(starts)
             block == np_ones(Min(sieve_block_size, b - start))
         IN  Offset(start, flatnonzero(sieve_block(block, start, small_primes)))
                 \o sieve_blocks(Tail(starts), b, small_primes)

\* list(sieve_interval(a, b)): everything the generator yields, or the
\* exception that ends it
sieve_interval(a, b) ==
    IF ~Ok(integer_sqrt(b)) THEN integer_sqrt(b)
    ELSE LET sqrt == isqrt(b)
         IN  IF ~Ok(luo(sqrt)) THEN luo(sqrt)
             ELSE LET small_primes == luo(sqrt).val
                      first == SelectSeq(small_primes, LAMBDA p : a <= p /\ p < b)
                      starts == range(Max(sqrt + 1, a), b, sieve_block_size)
                  IN  Return(first \o sieve_blocks(starts, b, small_primes))

\* block_size of sieve_interval2, 10**6
sieve2_block_size == 1000000

\* sieve_interval2, lines 362-364: the flags of the odd numbers start + 1,
\* start + 3, ... after the odd small primes ps have marked them;
\* -(start + 1 + p)//2 % p negates before it divides
RECURSIVE sieve2_block(_, _, _)
sieve2_block(block, start, ps) ==
    IF ps = <<>> THEN block
    ELSE LET p == Head(ps)
             offset == ((0 - (start + 1 + p)) \div 2) % p
         IN  sieve2_block(SetSlice(block, offset, p, FALSE), start, Tail(ps))

\* (2*nonzero + (start + 1)).tolist()
OddOffset(start, nonzero) ==
    [j \in 1 .. Len(nonzero) |-> 2 * nonzero[j] + (start + 1)]

\* sieve_interval2, lines 360-368: what the blocks at the given starts yield
RECURSIVE sieve2_blocks(_, _, _)
sieve2_blocks(starts, bb, small_primes) ==
    IF starts = <<>> THEN <<>>
    ELSE LET start == Head(starts)
             block == np_ones(Min(sieve2_block_size, (bb - start) \div 2))
         IN  OddOffset(start, flatnonzero(sieve2_block(block, start, small_primes)))
                 \o sieve2_blocks(Tail(starts), bb, small_primes)

\* list(sieve_interval2(a, b)): everything the generator yields, or the
\* exception that ends it
sieve_interval2(a, b) ==
    IF ~Ok(integer_sqrt(b)) THEN integer_sqrt(b)
    ELSE LET sqrt == isqrt(b)
         IN  IF ~Ok(luo(sqrt)) THEN luo(sqrt)
             ELSE LET small_primes == Tail(luo(sqrt).val)
                      two == IF a <= 2 THEN <<2>> ELSE <<>>
                      first == SelectSeq(small_primes, LAMBDA p : a <= p /\ p < b)
                      bb == b + (b % 2)
                      aa == Max(sqrt + 1, a) - (Max(sqrt + 1, a) % 2)
                      starts == range(aa, bb, 2 * sieve2_block_size)
                  IN  Return(two \o first \o sieve2_blocks(starts, bb, small_primes))

(***************************************************************************)
(* Calls of the sieves.  The caller holds a and b; the bounded sieves are  *)
(* given b.                                                                *)
(***************************************************************************)
InitSieve ==
    /\ input \in [a : -MaxNeg .. MaxA, b : -MaxNeg .. MaxP]
    /\ Fresh

Call_eratosthenes ==
    /\ op' = "eratosthenes"
    /\ args' = <<input.b>>
    /\ ret' = eratosthenes(input.b)
    /\ UNCHANGED <<input, cache, calls, pc, iter_x, iter_xs, locals>>

Call_primes ==
    /\ op' = "primes"
    /\ args' = <<input.b>>
    /\ ret' = primes(input.b)
    /\ UNCHANGED <<input, cache, calls, pc, iter_x, iter_xs, locals>>

Call_eratosthenes2 ==
    /\ op' = "eratosthenes2"
    /\ args' = <<input.b>>
    /\ ret' = eratosthenes2(input.b)
    /\ UNCHANGED <<input, cache, calls, pc, iter_x, iter_xs, locals>>

Call_luo ==
    /\ op' = "luo"
    /\ args' = <<input.b>>
    /\ ret' = luo(input.b)
    /\ UNCHANGED <<input, cache, calls, pc, iter_x, iter_xs, locals>>

Call_sieve_interval ==
    /\ op' = "sieve_interval"
    /\ args' = <<input.a, input.b>>
    /\ ret' = sieve_interval(input.a, input.b)
    /\ UNCHANGED <<input, cache, calls, pc, iter_x, iter_xs, locals>>

Call_sieve_interval2 ==
    /\ op' = "sieve_interval2"
    /\ args' = <<input.a, input.b>>
    /\ ret' = sieve_interval2(input.a, input.b)
    /\ UNCHANGED <<input, cache, calls, pc, iter_x, iter_xs, locals>>

NextSieve ==
    \/ Call_eratosthenes
    \/ Call_primes
    \/ Call_eratosthenes2
    \/ Call_luo
    \/ Call_sieve_interval
    \/ Call_sieve_interval2

SpecSieve == InitSieve /\ [][NextSieve]_vars

\* the reference: p is prime
IsPrime(p) == p >= 2 /\ \A d \in 2 .. p - 1 : p % d # 0

\* s is strictly increasing
StrictlyIncreasing(s) == \A i \in 1 .. Len(s) - 1 : s[i] < s[i + 1]

\* s lists exactly the primes p with lo <= p <= hi, in increasing order
ListsPrimes(s, lo, hi) ==
    /\ StrictlyIncreasing(s)
    /\ Elems(s) = { p \in lo .. hi : IsPrime(p) }

\* C7: for every n >= 2, eratosthenes(n) and primes(n) return a strictly
\* increasing list holding every prime p with 2 <= p <= n and nothing else.
C7_BoundedSieveListsPrimes ==
    (op \in {"eratosthenes", "primes"} /\ args[1] >= 2) =>
        /\ Ok(ret)
        /\ ListsPrimes(ret.val, 2, args[1])

C7_Witness ==
    /\ op = "primes"
    /\ args = <<48>>
    /\ Ok(ret)
    /\ Len(ret.val) = 15
    /\ ret.val[15] = 47

\* C8: for n = 0 and for n = 1, eratosthenes(n) and primes(n) return the
\* empty list without raising.
C8_SmallBoundsGiveEmptyList ==
    (op \in {"eratosthenes", "primes"} /\ args[1] \in {0, 1}) =>
        /\ Ok(ret)
        /\ ret.val = <<>>

\* eratosthenes(0): the array has one entry and block[1] = False raises
C8_Witness ==
    /\ op = "eratosthenes"
    /\ args = <<0>>
    /\ ret = Raise("IndexError")

\* C9: for every n >= 0, eratosthenes2(n) has the outcome of eratosthenes(n).
C9_OddOnlySieveAgrees ==
    (op = "eratosthenes2" /\ args[1] >= 0) => ret = eratosthenes(args[1])

\* eratosthenes2(1) returns [2], eratosthenes(1) returns []
C9_Witness ==
    /\ op = "eratosthenes2"
    /\ args = <<1>>
    /\ ret = Return(<<2>>)
    /\ eratosthenes(1) = Return(<<>>)

\* C10 as stated: for every b >= 2, list(sieve_interval(2, b)) == luo(b).
C10_SegmentedEqualsLuo ==
    (op = "sieve_interval" /\ args[1] = 2 /\ args[2] >= 2) =>
        ret = luo(args[2])

\* C10 as amended: for every b >= 2, list(sieve_interval(2, b)) is luo(b)
\* without its elements >= b; the two lists are equal exactly when b is not
\* prime.
C10_SegmentedIsLuoBelowBound ==
    (op = "sieve_interval" /\ args[1] = 2 /\ args[2] >= 2) =>
        /\ Ok(ret)
        /\ Ok(luo(args[2]))
        /\ ret.val = SelectSeq(luo(args[2]).val, LAMBDA p : p < args[2])
        /\ (ret = luo(args[2])) <=> ~IsPrime(args[2])

C10_Witness ==
    /\ op = "sieve_interval"
    /\ args = <<2, 50>>
    /\ ret = luo(50)
    /\ Len(ret.val) = 15

\* C11: for all integers 2 <= a < b, list(sieve_interval2(a, b)) has the
\* outcome of list(sieve_interval(a, b)).
C11_OddSegmentedAgrees ==
    (op = "sieve_interval2" /\ 2 <= args[1] /\ args[1] < args[2]) =>
        ret = sieve_interval(args[1], args[2])

\* sieve_interval2(2, 5) yields 5 as well, sieve_interval(2, 5) stops below it
C11_Witness ==
    /\ op = "sieve_interval2"
    /\ args = <<2, 5>>
    /\ ret = Return(<<2, 3, 5>>)
    /\ sieve_interval(2, 5) = Return(<<2, 3>>)

SieveEntryPoints == {"eratosthenes", "eratosthenes2", "luo", "primes"}

\* C14: for every n < 0, eratosthenes, eratosthenes2, luo and primes end with
\* ValueError, the error integer_sqrt raises for a negative input.
C14_SievesRejectNegativeBound ==
    (op \in SieveEntryPoints /\ args[1] < 0) =>
        /\ ret = Raise("ValueError")
        /\ ret = integer_sqrt(args[1])

\* eratosthenes2(-1) allocates an empty array and block[0] = False raises
C14_Witness ==
    /\ op = "eratosthenes2"
    /\ args = <<-1>>
    /\ ret = Raise("IndexError")

(***************************************************************************)
(* Counting Squarefree Numbers                                             *)
(***************************************************************************)
\* dict[key] = v
DictSet(dict, key, v) == (key :> v) @@ dict

\* the empty dict
EmptyDict == [x \in {} |-> 0]

\* factorizations, lines 65-67: the while loop dividing d out of m, counting
\* in e how often
RECURSIVE divide_out(_, _, _)
divide_out(m, d, e) ==
    IF m % d = 0 THEN divide_out(m \div d, d, e + 1)
    ELSE [rest |-> m, e |-> e]

\* factorizations, lines 62-67: the loop over the multiples of d;
\* st = [block, factors], block the list whose entry for m is block[m + 1].
\* factors[m][d] starts at 0 and the while loop runs only if d divides
\* block[m]
RECURSIVE factorizations_multiples(_, _, _)
factorizations_multiples(st, d, multiples) ==
    IF multiples = <<>> THEN st
    ELSE IF st.block[Head(multiples) + 1] % d # 0
         THEN factorizations_multiples(
                  [st EXCEPT !.factors[Head(multiples)] = DictSet(@, d, 0)],
                  d, Tail(multiples))
    ELSE LET m == Head(multiples)
             r == divide_out(st.block[m + 1], d, 0)
         IN  factorizations_multiples(
                 [block |-> [st.block EXCEPT ![m + 1] = r.rest],
                  factors |-> [st.factors EXCEPT ![m] = DictSet(@, d, r.e)]],
                 d, Tail(multiples))

\* factorizations, lines 58-67: the loop over d, skipping d when block[d] = 1
RECURSIVE factorizations_loop(_, _, _)
factorizations_loop(st, ds, n) ==
    IF ds = <<>> THEN st
    ELSE IF st.block[Head(ds) + 1] = 1
         THEN factorizations_loop(st, Tail(ds), n)
    ELSE factorizations_loop(
             factorizations_multiples(st, Head(ds), range(Head(ds), n, Head(ds))),
             Tail(ds), n)

\* factorizations(n): the dict k -> (prime -> exponent) for 1 <= k < n, with
\* factors[1] = {1: 1}
factorizations(n) ==
    LET block == range(0, n, 1)
        factors == DictSet([k \in 1 .. n - 1 |-> EmptyDict], 1, (1 :> 1))
    IN  factorizations_loop([block |-> block, factors |-> factors],
                            range(2, n, 1), n).factors

is_squarefree(factorization) ==
    \A p \in DOMAIN factorization : factorization[p] = 1

\* test_count, lines 302-303: the loop over the keys ks of the dict factors,
\* which iterates in ascending order of k; test_count[k - 1] raises KeyError,
\* ending the loop, if k - 1 is not a key yet
RECURSIVE test_count_loop(_, _, _)
test_count_loop(count, factors, ks) ==
    IF ks = <<>> THEN count
    ELSE IF Head(ks) - 1 \notin DOMAIN count THEN count
    ELSE LET k == Head(ks)
             flag == IF is_squarefree(factors[k]) THEN 1 ELSE 0
         IN  test_count_loop(DictSet(count, k, count[k - 1] + flag),
                             factors, Tail(ks))

\* test_count, lines 301-303, built from factorizations(n): the running count
\* of the squarefree k, from test_count[0] = 0.  The notebook builds it with
\* n = 10**3; an entry test_count[k] does not depend on n > k.
test_count(n) ==
    test_count_loop((0 :> 0), factorizations(n), range(1, Max(n, 2), 1))

\* Q_sieve, lines 398-399: the loop over the primes ps
RECURSIVE Q_sieve_loop(_, _)
Q_sieve_loop(block, ps) ==
    IF ps = <<>> THEN block
    ELSE LET p == Head(ps)
         IN  Q_sieve_loop(SetSlice(block, p * p, p * p, FALSE), Tail(ps))

Q_sieve(n) ==
    IF n + 1 < 0 THEN Raise("ValueError")
    ELSE IF n + 1 < 1 THEN Raise("IndexError")
    ELSE LET block == SetItem(np_ones(n + 1), 0, FALSE)
             bound == isqrt(n) + 1
         IN  Return(count_nonzero(Q_sieve_loop(block, primes(bound).val)))

\* block_size of Q_segmented, 2**20
Q_block_size == 1048576

\* Q_segmented with the first multiple not rounded up to start
Q_segmented_block_mut(block, start, prime_squares) ==
    mark_slices(block, Size(block),
                [j \in 1 .. Len(prime_squares) |->
                    (start \div prime_squares[j]) * prime_squares[j] - start],
                prime_squares)

\* Q_segmented, lines 528-531: the flags of the block at start after the
\* squares of the primes have marked it
Q_segmented_block(block, start, prime_squares) ==
    mark_slices(block, Size(block), slice_offsets(start, prime_squares), prime_squares)

\* Q_segmented, lines 526-532: the count over the blocks at the given starts
RECURSIVE Q_segmented_blocks(_, _, _)
Q_segmented_blocks(starts, n, prime_squares) ==
    IF starts = <<>> THEN 0
    ELSE LET start == Head(starts)
             block == np_ones(Min(Q_block_size, n - start + 1))
         IN  count_nonzero(Q_segmented_block(block, start, prime_squares))
                 + Q_segmented_blocks(Tail(starts), n, prime_squares)

Q_segmented(n) ==
    IF ~Ok(integer_sqrt(n)) THEN integer_sqrt(n)
    ELSE LET ps == primes(isqrt(n) + 1).val
             prime_squares == [j \in 1 .. Len(ps) |-> ps[j] * ps[j]]
         IN  Return(Q_segmented_blocks(range(1, n + 1, Q_block_size),
                                       n, prime_squares))

\* Q_memo on the default cache c: the outcome and the cache afterwards.
\* Q_memo_sum is the generator summed on line 629, whose calls run in order
\* of k on the one shared dict; each gets x // k**2 >= 1 and so returns.
RECURSIVE Q_memo(_, _)
RECURSIVE Q_memo_sum(_, _, _)
Q_memo_sum(x, ks, c) ==
    IF ks = <<>> THEN [sum |-> 0, cache |-> c]
    ELSE LET first == Q_memo(x \div (Head(ks) * Head(ks)), c)
             rest == Q_memo_sum(x, Tail(ks), first.cache)
         IN  [sum |-> first.ret.val + rest.sum, cache |-> rest.cache]

\* Q_memo storing its result in a fresh dict
Q_memo_mut_reset(x, c) ==
    IF x \in DOMAIN c THEN [ret |-> Return(c[x]), cache |-> c]
    ELSE IF ~Ok(integer_sqrt(x)) THEN [ret |-> integer_sqrt(x), cache |-> c]
    ELSE LET r == Q_memo_sum(x, range(2, isqrt(x) + 1, 1), c)
         IN  [ret |-> Return(x - r.sum), cache |-> DictSet((1 :> 1), x, x - r.sum)]

Q_memo_mut(x, c) ==
    IF x \in DOMAIN c THEN [ret |-> Return(c[x]), cache |-> c]
    ELSE IF ~Ok(integer_sqrt(x)) THEN [ret |-> integer_sqrt(x), cache |-> c]
    ELSE LET r == Q_memo_sum(x, range(2, isqrt(x), 1), c)
         IN  [ret |-> Return(x - r.sum), cache |-> DictSet(r.cache, x, x - r.sum)]

Q_memo(x, c) ==
    IF x \in DOMAIN c THEN [ret |-> Return(c[x]), cache |-> c]
    ELSE IF ~Ok(integer_sqrt(x)) THEN [ret |-> integer_sqrt(x), cache |-> c]
    ELSE LET r == Q_memo_sum(x, range(2, isqrt(x) + 1, 1), c)
         IN  [ret |-> Return(x - r.sum), cache |-> DictSet(r.cache, x, x - r.sum)]

\* Q_memo(x, cache=c) passing c on to the recursive calls
Q_memo_own_mut(x, c, d) ==
    IF x \in DOMAIN c THEN [ret |-> Return(c[x]), own |-> c, cache |-> d]
    ELSE IF ~Ok(integer_sqrt(x)) THEN [ret |-> integer_sqrt(x), own |-> c, cache |-> d]
    ELSE LET r == Q_memo_sum(x, range(2, isqrt(x) + 1, 1), c)
         IN  [ret |-> Return(x - r.sum),
              own |-> DictSet(r.cache, x, x - r.sum),
              cache |-> d]

\* Q_memo(x, cache=c) for a dict c of the caller, d being the default dict:
\* the outcome, c afterwards (own) and d afterwards (cache).  The recursive
\* calls on line 629 pass no cache, so they run on d.
Q_memo_own(x, c, d) ==
    IF x \in DOMAIN c THEN [ret |-> Return(c[x]), own |-> c, cache |-> d]
    ELSE IF ~Ok(integer_sqrt(x)) THEN [ret |-> integer_sqrt(x), own |-> c, cache |-> d]
    ELSE LET r == Q_memo_sum(x, range(2, isqrt(x) + 1, 1), d)
         IN  [ret |-> Return(x - r.sum),
              own |-> DictSet(c, x, x - r.sum),
              cache |-> r.cache]

\* Q_dp, lines 795-797: the while loop, from the current k and V
RECURSIVE Q_dp_V(_, _, _)
Q_dp_V(x, k, V) ==
    IF x \div (k * k) > x \div ((k + 1) * (k + 1))
    THEN Q_dp_V(x, k + 1, Append(V, x \div (k * k)))
    ELSE V

\* the tail starting at v itself, list(range(v, -1, -1))
Descending_mut(v) == [j \in 1 .. v + 1 |-> v + 1 - j]

\* list(range(v - 1, -1, -1))
Descending(v) == [j \in 1 .. v |-> v - j]

\* sorted(V)
RECURSIVE Insert(_, _)
Insert(s, v) ==
    IF s = <<>> THEN <<v>>
    ELSE IF v <= Head(s) THEN <<v>> \o s
    ELSE <<Head(s)>> \o Insert(Tail(s), v)

RECURSIVE sorted(_)
sorted(V) == IF V = <<>> THEN <<>> ELSE Insert(sorted(Tail(V)), Head(V))

\* Q_dp, lines 803-804: the inner loop over l; st = [exc, cache]
RECURSIVE Q_dp_inner(_, _, _)
Q_dp_inner(st, k, ls) ==
    IF ls = <<>> \/ st.exc # "none" THEN st
    ELSE LET sub == k \div (Head(ls) * Head(ls))
         IN  IF sub \notin DOMAIN st.cache
             THEN [st EXCEPT !.exc = "KeyError"]
             ELSE Q_dp_inner(
                      [st EXCEPT !.cache[k] = @ - st.cache[sub]], k, Tail(ls))

\* Q_dp, lines 802-804: the outer loop over the values ks
RECURSIVE Q_dp_outer(_, _)
Q_dp_outer(st, ks) ==
    IF ks = <<>> \/ st.exc # "none" THEN st
    ELSE Q_dp_outer(
             Q_dp_inner(st, Head(ks), range(2, isqrt(Head(ks)) + 1, 1)),
             Tail(ks))

\* the list V without the tail below its last quotient
Q_dp_values_mut(x) ==
    Q_dp_V(x, 1, <<>>) \o <<0>>

\* the list V of Q_dp, lines 793-799, for a V the while loop left non-empty
Q_dp_values(x) ==
    LET V == Q_dp_V(x, 1, <<>>)
    IN  V \o Descending(V[Len(V)])

Q_dp_mut(x) ==
    IF x \in {0, 1} THEN Return(x)
    ELSE IF Q_dp_V(x, 1, <<>>) = <<>> THEN Raise("IndexError")
    ELSE LET V == Q_dp_values(x)
             start == [exc |-> "none", cache |-> [i \in Elems(V) |-> i]]
             st == Q_dp_outer(start, V)
         IN  IF st.exc # "none" THEN Raise(st.exc) ELSE Return(st.cache[x])

\* V[-1] raises IndexError when the while loop appended nothing; cache[...]
\* raises KeyError for a key that is not in V
Q_dp(x) ==
    IF x \in {0, 1} THEN Return(x)
    ELSE IF Q_dp_V(x, 1, <<>>) = <<>> THEN Raise("IndexError")
    ELSE LET V == Q_dp_values(x)
             start == [exc |-> "none", cache |-> [i \in Elems(V) |-> i]]
             st == Q_dp_outer(start, sorted(V))
         IN  IF st.exc # "none" THEN Raise(st.exc) ELSE Return(st.cache[x])

\* the loop body negating from index p instead of p - 1
Q_moebius_body_mut(block, p) ==
    NegateSlice(SetSlice(block, p * p - 1, p * p, 0), p, p)

\* one pass of the loop zeroing from index p*p instead of p*p - 1
Q_moebius_body_mut_zero(block, p) ==
    SetSlice(NegateSlice(block, p - 1, p), p * p, p * p, 0)

\* Q_moebius, lines 824-825: one pass of the loop
Q_moebius_body(block, p) ==
    SetSlice(NegateSlice(block, p - 1, p), p * p - 1, p * p, 0)

RECURSIVE Q_moebius_loop(_, _)
Q_moebius_loop(block, ps) ==
    IF ps = <<>> THEN block
    ELSE Q_moebius_loop(Q_moebius_body(block, Head(ps)), Tail(ps))

Q_moebius(n) ==
    IF ~Ok(integer_sqrt(n)) THEN integer_sqrt(n)
    ELSE LET bound == isqrt(n) + 1
             block == [i \in 0 .. bound - 2 |-> n \div ((i + 1) * (i + 1))]
         IN  Return(np_sum(Q_moebius_loop(block, primes(bound).val)))

(***************************************************************************)
(* Calls of the counting functions.  The caller holds x.  Q_memo reads and *)
(* writes the shared default cache.                                        *)
(***************************************************************************)
InitCount ==
    /\ input \in [x : -MaxNeg .. MaxX]
    /\ Fresh

Call_Q_sieve ==
    /\ op' = "Q_sieve"
    /\ args' = <<input.x>>
    /\ ret' = Q_sieve(input.x)
    /\ UNCHANGED <<input, cache, calls, pc, iter_x, iter_xs, locals>>

Call_Q_segmented ==
    /\ op' = "Q_segmented"
    /\ args' = <<input.x>>
    /\ ret' = Q_segmented(input.x)
    /\ UNCHANGED <<input, cache, calls, pc, iter_x, iter_xs, locals>>

Call_Q_dp ==
    /\ op' = "Q_dp"
    /\ args' = <<input.x>>
    /\ ret' = Q_dp(input.x)
    /\ UNCHANGED <<input, cache, calls, pc, iter_x, iter_xs, locals>>

Call_Q_moebius ==
    /\ op' = "Q_moebius"
    /\ args' = <<input.x>>
    /\ ret' = Q_moebius(input.x)
    /\ UNCHANGED <<input, cache, calls, pc, iter_x, iter_xs, locals>>

\* Q_memo(x) with the default cache
Do_Q_memo(x) ==
    /\ calls < MaxCalls
    /\ op' = "Q_memo"
    /\ args' = <<x>>
    /\ ret' = Q_memo(x, cache).ret
    /\ cache' = Q_memo(x, cache).cache
    /\ calls' = calls + 1
    /\ UNCHANGED <<pc, iter_x, iter_xs, locals>>

Call_Q_memo ==
    /\ Do_Q_memo(input.x)
    /\ UNCHANGED input

NextCount ==
    \/ Call_Q_sieve
    \/ Call_Q_segmented
    \/ Call_Q_dp
    \/ Call_Q_moebius
    \/ Call_Q_memo

SpecCount == InitCount /\ [][NextCount]_vars

(***************************************************************************)
(* A session of Q_memo calls: the caller picks the next argument at will.  *)
(***************************************************************************)
InitMemo ==
    /\ input = [x |-> 0]
    /\ Fresh

Next_Q_memo ==
    \E x \in -MaxNeg .. MaxMemoX :
        /\ input' = [x |-> x]
        /\ Do_Q_memo(x)

NextMemo == Next_Q_memo

SpecMemo == InitMemo /\ [][NextMemo]_vars

\* the reference: m is squarefree
IsSquarefree(m) == m >= 1 /\ \A d \in 2 .. m : m % (d * d) # 0

\* the reference: Q(x), the number of squarefree integers in [1, x]
Q(x) == Cardinality({ m \in 1 .. x : IsSquarefree(m) })

\* the reference: floor(sqrt(n)) for n >= 0
FloorSqrt(n) == CHOOSE m \in 0 .. n : m * m <= n /\ n < (m + 1) * (m + 1)

\* the reference: the Moebius function
mu(d) ==
    IF \E q \in 2 .. d : d % (q * q) = 0 THEN 0
    ELSE IF Cardinality({ q \in 2 .. d : IsPrime(q) /\ d % q = 0 }) % 2 = 0
         THEN 1 ELSE -1

\* the reference: sum over d = 1..m of mu(d) * floor(n / d^2)
RECURSIVE MoebiusSum(_, _)
MoebiusSum(n, m) ==
    IF m <= 0 THEN 0 ELSE mu(m) * (n \div (m * m)) + MoebiusSum(n, m - 1)

CountingForms == {"Q_memo", "Q_dp", "Q_moebius", "Q_sieve", "Q_segmented"}

\* C1: for every x >= 0 the five counting forms return the same value:
\* whichever form was called on x, its result is the one each of the other
\* forms gives for x (Q_memo on the shared cache as it now is).
C1_FiveFormsAgree ==
    (op \in CountingForms /\ args[1] >= 0) =>
        /\ Ok(ret)
        /\ ret = Q_memo(args[1], cache).ret
        /\ ret = Q_dp(args[1])
        /\ ret = Q_moebius(args[1])
        /\ ret = Q_sieve(args[1])
        /\ ret = Q_segmented(args[1])

C1_Witness ==
    /\ op = "Q_segmented"
    /\ args = <<36>>
    /\ ret = Return(23)
    /\ 36 \in DOMAIN cache
    /\ cache[36] = 23

\* C2: after any sequence of earlier Q_memo calls, Q_memo(x) for x >= 0
\* returns Q(x), and a repeated call with the same x returns the same value.
C2_MemoReturnsQ ==
    (op = "Q_memo" /\ args[1] >= 0) =>
        /\ Ok(ret)
        /\ ret.val = Q(args[1])
        /\ Q_memo(args[1], cache).ret = ret

C2_Witness ==
    /\ op = "Q_memo"
    /\ calls = 3
    /\ args = <<16>>
    /\ ret = Return(11)
    /\ {9, 20} \subseteq DOMAIN cache

\* C3: for every x >= 0, Q_dp(x) returns the number of squarefree integers in
\* [1, x], the value test_count[x] of the brute-force reference.
C3_DpMatchesTestCount ==
    (op = "Q_dp" /\ args[1] >= 0) =>
        /\ Ok(ret)
        /\ ret.val = test_count(args[1] + 1)[args[1]]
        /\ ret.val = Q(args[1])

C3_Witness ==
    /\ op = "Q_dp"
    /\ args = <<36>>
    /\ ret = Return(23)

\* C4: for every n >= 0, Q_moebius(n) returns the number of squarefree
\* integers in [1, n], which is the sum over d = 1..floor(sqrt(n)) of
\* mu(d) * floor(n / d^2).
C4_MoebiusReturnsQ ==
    (op = "Q_moebius" /\ args[1] >= 0) =>
        /\ Ok(ret)
        /\ ret.val = Q(args[1])
        /\ ret.val = MoebiusSum(args[1], FloorSqrt(args[1]))

C4_Witness ==
    /\ op = "Q_moebius"
    /\ args = <<36>>
    /\ ret = Return(23)

SubLinearForms == {"Q_memo", "Q_dp", "Q_moebius"}

\* C13: for every x < 0, Q_memo, Q_dp and Q_moebius end with ValueError, the
\* error integer_sqrt raises for a negative input, and the Q_memo cache has
\* no entry added.
C13_CountingRejectsNegative ==
    (op \in SubLinearForms /\ args[1] < 0) =>
        /\ ret = Raise("ValueError")
        /\ ret = integer_sqrt(args[1])
        /\ cache = (1 :> 1)

\* Q_dp(-1): the while loop appends nothing and V[-1] raises
C13_Witness ==
    /\ op = "Q_dp"
    /\ args = <<-1>>
    /\ ret = Raise("IndexError")
    /\ cache = (1 :> 1)

\* C17: nothing a Q_memo call wrote is visible to a later call: the cache the
\* next top-level call starts from is the one the first call started from,
\* {1: 1}.
C17_MemoKeepsNoState == cache = (1 :> 1)

\* after Q_memo(4) the next call starts from {1: 1, 4: 3}
C17_Witness ==
    /\ op = "Q_memo"
    /\ calls = 1
    /\ args = <<4>>
    /\ ret = Return(3)
    /\ cache = (1 :> 1) @@ (4 :> 3)

\* every value in the cache is Q of its key
CacheHoldsQ == \A key \in DOMAIN cache : cache[key] = Q(key)

\* a step removes no key and changes no value
CacheGrows ==
    \A key \in DOMAIN cache : key \in DOMAIN cache' /\ cache'[key] = cache[key]

\* C18: across any sequence of Q_memo calls, a key once in the cache is never
\* removed, its value never changes, and every value present is Q(key).
C18_CacheIsWriteOnce == []CacheHoldsQ /\ [][CacheGrows]_vars

C18_Witness ==
    /\ op = "Q_memo"
    /\ calls = 2
    /\ args = <<20>>
    /\ DOMAIN cache = {1, 2, 5, 20}
    /\ cache[20] = 13

\* the reference: the integer m with m^k <= n < (m + 1)^k, for n >= 0, k >= 1
FloorRoot(n, k) ==
    CHOOSE m \in 0 .. n : Pow(m, k) <= n /\ n < Pow(m + 1, k)

\* the initial estimate the claim names for the call in progress
NamedEstimate ==
    IF op = "integer_sqrt" THEN Pow(2, (bit_length(args[1]) + 1) \div 2)
    ELSE Pow(2, bit_length(args[1]) \div args[2] + 1)

\* the root the call in progress is to return
RootSought ==
    IF op = "integer_sqrt" THEN FloorRoot(args[1], 2)
    ELSE FloorRoot(args[1], args[2])

\* C21: in integer_kth_root (n >= 2, k >= 1) and integer_sqrt (n >= 2) the
\* starting value is 2**(bit_length(n)//k + 1), resp.
\* 2**((bit_length(n) + 1)//2), it and every later value of x (resp. hi) is
\* >= the floor root and >= 1, and no division by zero happens.
C21_EstimateStaysAbove ==
    (pc # "idle" /\ op \in RootChecks /\ args[1] >= 2
        /\ (op = "integer_kth_root" => args[2] >= 1)) =>
        /\ iter_xs # <<>>
        /\ iter_xs[1] = NamedEstimate
        /\ \A i \in 1 .. Len(iter_xs) :
               iter_xs[i] >= RootSought /\ iter_xs[i] >= 1
        /\ iter_x = iter_xs[Len(iter_xs)]
        /\ ret # Raise("ZeroDivisionError")

C21_Witness ==
    /\ pc = "done"
    /\ op = "integer_sqrt"
    /\ args = <<120>>
    /\ iter_xs = <<16, 11, 10>>
    /\ ret = Return(10)

(***************************************************************************)
(* eratosthenes pass by pass of its outer loop.  locals.block is the array *)
(* of flags and locals.ks the values of k the loop has still to take, so   *)
(* Head(locals.ks) is the k the loop has reached.                          *)
(***************************************************************************)
InitLoop ==
    /\ input \in [b : -MaxNeg .. MaxP]
    /\ Fresh

\* eratosthenes, lines 52-55: the array, block[0] = block[1] = False and the
\* range of the outer loop
Enter_eratosthenes ==
    /\ pc = "idle"
    /\ op' = "eratosthenes"
    /\ args' = <<input.b>>
    /\ LET n == input.b
       IN  IF n + 1 < 0
           THEN Finish(Raise("ValueError")) /\ UNCHANGED locals
           ELSE IF n + 1 < 2
           THEN Finish(Raise("IndexError")) /\ UNCHANGED locals
           ELSE /\ locals' = [block |-> SetItem(SetItem(np_ones(n + 1), 0, FALSE),
                                                1, FALSE),
                              ks |-> range(2, isqrt(n) + 1, 1)]
                /\ pc' = "loop"
                /\ UNCHANGED ret
    /\ UNCHANGED <<input, cache, calls, iter_x, iter_xs>>

\* eratosthenes, lines 55-59: one pass of the outer loop, or the return once
\* the range is exhausted
Step_eratosthenes ==
    /\ pc = "loop"
    /\ op = "eratosthenes"
    /\ IF locals.ks = <<>>
       THEN Finish(Return(flatnonzero(locals.block))) /\ UNCHANGED locals
       ELSE /\ locals' = [block |-> eratosthenes_body(locals.block, Head(locals.ks)),
                          ks |-> Tail(locals.ks)]
            /\ UNCHANGED <<ret, pc>>
    /\ UNCHANGED <<input, op, args, cache, calls, iter_x, iter_xs>>

NextLoop ==
    \/ Enter_eratosthenes
    \/ Step_eratosthenes

SpecLoop == InitLoop /\ [][NextLoop]_vars

\* m is composite and has a prime factor smaller than k
HasPrimeFactorBelow(m, k) ==
    \E q \in 2 .. k - 1 : IsPrime(q) /\ q < m /\ m % q = 0

\* C22: in eratosthenes(n), n >= 2, no prime is ever flagged False, and when
\* the outer loop reaches k every composite m <= n with a prime factor
\* smaller than k is flagged False, block[k] is True exactly when k is
\* prime, and for a prime k the multiples of k below k*k are flagged already.
C22_LoopReachesPrimes ==
    (op = "eratosthenes" /\ pc = "loop" /\ args[1] >= 2) =>
        LET n == args[1]
            block == locals.block
        IN  /\ \A p \in 2 .. n : IsPrime(p) => block[p]
            /\ locals.ks # <<>> =>
                   LET k == Head(locals.ks)
                   IN  /\ 2 <= k /\ k <= FloorRoot(n, 2)
                       /\ \A m \in 2 .. n : HasPrimeFactorBelow(m, k) => ~block[m]
                       /\ block[k] <=> IsPrime(k)
                       /\ \A j \in 2 .. k - 1 : k * j <= n => ~block[k * j]

\* eratosthenes(80) on reaching k = 7: 49 and 77 are the only composites left
C22_Witness ==
    /\ op = "eratosthenes"
    /\ pc = "loop"
    /\ args = <<80>>
    /\ locals.ks = <<7, 8>>
    /\ locals.block[49] /\ locals.block[77]
    /\ ~locals.block[35]

(***************************************************************************)
(* Q_dp pass by pass of its outer loop.  locals.V is the list V,           *)
(* locals.cache the dict and locals.ks the values of sorted(V) the loop    *)
(* has still to take.                                                      *)
(***************************************************************************)
\* Q_dp with the outer loop taking V as it was built, not sorted(V)
Enter_Q_dp_mut ==
    /\ pc = "idle"
    /\ op' = "Q_dp"
    /\ args' = <<input.x>>
    /\ LET x == input.x
       IN  IF x \in {0, 1}
           THEN Finish(Return(x)) /\ UNCHANGED locals
           ELSE IF Q_dp_V(x, 1, <<>>) = <<>>
           THEN Finish(Raise("IndexError")) /\ UNCHANGED locals
           ELSE /\ locals' = [V |-> Q_dp_values(x),
                              cache |-> [i \in Elems(Q_dp_values(x)) |-> i],
                              ks |-> Q_dp_values(x)]
                /\ pc' = "loop"
                /\ UNCHANGED ret
    /\ UNCHANGED <<input, cache, calls, iter_x, iter_xs>>

\* Q_dp, lines 790-802: the early return, the list V, the dict and the
\* values of the outer loop
Enter_Q_dp ==
    /\ pc = "idle"
    /\ op' = "Q_dp"
    /\ args' = <<input.x>>
    /\ LET x == input.x
       IN  IF x \in {0, 1}
           THEN Finish(Return(x)) /\ UNCHANGED locals
           ELSE IF Q_dp_V(x, 1, <<>>) = <<>>
           THEN Finish(Raise("IndexError")) /\ UNCHANGED locals
           ELSE /\ locals' = [V |-> Q_dp_values(x),
                              cache |-> [i \in Elems(Q_dp_values(x)) |-> i],
                              ks |-> sorted(Q_dp_values(x))]
                /\ pc' = "loop"
                /\ UNCHANGED ret
    /\ UNCHANGED <<input, cache, calls, iter_x, iter_xs>>

\* Q_dp, lines 802-806: one pass of the outer loop with its whole inner
\* loop, or the return once the values are exhausted
Step_Q_dp ==
    /\ pc = "loop"
    /\ op = "Q_dp"
    /\ IF locals.ks = <<>>
       THEN /\ IF args[1] \in DOMAIN locals.cache
               THEN Finish(Return(locals.cache[args[1]]))
               ELSE Finish(Raise("KeyError"))
            /\ UNCHANGED locals
       ELSE LET k == Head(locals.ks)
                st == Q_dp_inner([exc |-> "none", cache |-> locals.cache],
                                 k, range(2, isqrt(k) + 1, 1))
            IN  IF st.exc # "none"
                THEN Finish(Raise(st.exc)) /\ UNCHANGED locals
                ELSE /\ locals' = [locals EXCEPT !.cache = st.cache,
                                                 !.ks = Tail(locals.ks)]
                     /\ UNCHANGED <<ret, pc>>
    /\ UNCHANGED <<input, op, args, cache, calls, iter_x, iter_xs>>

NextDp ==
    \/ Enter_Q_dp
    \/ Step_Q_dp

SpecDp == InitCount /\ [][NextDp]_vars

\* Q_dp(x) has built its list V, for an x >= 2
BuiltV == op = "Q_dp" /\ pc # "idle" /\ args[1] >= 2

\* s is strictly decreasing
StrictlyDecreasing(s) == \A i \in 1 .. Len(s) - 1 : s[i] > s[i + 1]

\* the quotients floor(x / k^2), k >= 1; they are 0 from k = x + 1 on
Quotients(x) == {x \div (k * k) : k \in 1 .. x + 1}

\* C23: in Q_dp(x), x >= 2, the list V is strictly decreasing, starts with
\* x, ends with 0, and contains floor(x / k^2) for every k >= 1.
C23_VDecreasesToZero ==
    BuiltV =>
        /\ StrictlyDecreasing(locals.V)
        /\ locals.V[1] = args[1]
        /\ locals.V[Len(locals.V)] = 0
        /\ Quotients(args[1]) \subseteq Elems(locals.V)

C23_Witness ==
    /\ BuiltV
    /\ args = <<50>>
    /\ locals.V = <<50, 12, 5, 3, 2, 1, 0>>

\* the last quotient the while loop of Q_dp appends: floor(x / (K - 1)^2)
\* for the least K >= 2 with floor(x / K^2) = floor(x / (K + 1)^2)
LastDistinctQuotient(x) ==
    LET K == CHOOSE k \in 2 .. x + 1 :
                 /\ x \div (k * k) = x \div ((k + 1) * (k + 1))
                 /\ \A j \in 1 .. k - 1 :
                        x \div (j * j) # x \div ((j + 1) * (j + 1))
    IN  x \div ((K - 1) * (K - 1))

\* C24 as stated: for x >= 2 the set of values of V is the union of the
\* quotients floor(x / k^2) and {0, ..., floor(sqrt(x))}, so V contains every
\* integer from 0 to floor(sqrt(x)) and every element above floor(sqrt(x))
\* is a quotient.
C24_VIsQuotientsAndRoots ==
    BuiltV =>
        /\ Elems(locals.V) = Quotients(args[1]) \cup (0 .. FloorSqrt(args[1]))
        /\ (0 .. FloorSqrt(args[1])) \subseteq Elems(locals.V)
        /\ \A v \in Elems(locals.V) :
               v > FloorSqrt(args[1]) => v \in Quotients(args[1])

\* C24 amended: for x >= 2 the set of values of V is the union of the
\* quotients floor(x / k^2) and {0, ..., m}, m the last quotient the while
\* loop appends; V contains every integer from 0 to m and every element
\* above m is a quotient.
C24_VIsQuotientsAndTail ==
    BuiltV =>
        LET m == LastDistinctQuotient(args[1])
        IN  /\ Elems(locals.V) = Quotients(args[1]) \cup (0 .. m)
            /\ (0 .. m) \subseteq Elems(locals.V)
            /\ \A v \in Elems(locals.V) : v > m => v \in Quotients(args[1])

\* Q_dp(48): the while loop appends 48, 12, 5, 3 and the tail is 2, 1, 0;
\* V lacks 4 and 6 although floor(sqrt(48)) = 6
C24_Witness ==
    /\ BuiltV
    /\ args = <<48>>
    /\ locals.V = <<48, 12, 5, 3, 2, 1, 0>>
    /\ LastDistinctQuotient(48) = 3
    /\ FloorSqrt(48) = 6

\* the values of V whose pass of the outer loop is over
Processed == Elems(locals.V) \ Elems(locals.ks)

\* in the outer loop of Q_dp(x), x >= 2: the values still to take are in
\* strictly increasing order and above every processed one, a processed
\* value holds Q of it, and every index the inner loop is about to read for
\* the value k reached is a processed key smaller than k
SubproblemsFinal ==
    (BuiltV /\ pc = "loop") =>
        /\ StrictlyIncreasing(locals.ks)
        /\ \A v \in Processed :
               /\ \A k \in Elems(locals.ks) : v < k
               /\ locals.cache[v] = Q(v)
        /\ locals.ks # <<>> =>
               LET k == Head(locals.ks)
               IN  \A l \in 2 .. FloorSqrt(k) :
                       /\ k \div (l * l) \in DOMAIN locals.cache
                       /\ k \div (l * l) < k
                       /\ k \div (l * l) \in Processed

\* a pass of the outer loop writes cache[k] for the value k it takes and
\* leaves every processed entry as it is
ProcessedUntouched ==
    (BuiltV /\ pc = "loop" /\ pc' = "loop") =>
        /\ \A v \in Processed : locals'.cache[v] = locals.cache[v]
        /\ locals'.cache[Head(locals.ks)] = Q(Head(locals.ks))
        /\ DOMAIN locals'.cache = DOMAIN locals.cache

\* C25: in Q_dp(x), x >= 2, values are processed in strictly increasing
\* order; when the outer loop starts value k each index k // l**2 the inner
\* loop reads is a key of cache, smaller than k and already holds
\* Q(k // l**2); after the inner loop cache[k] = Q(k) and is not written
\* again.
C25_SubproblemsFinalBeforeUse == []SubproblemsFinal /\ [][ProcessedUntouched]_vars

\* Q_dp(50) about to take 50: it reads the keys 12, 5, 3, 2, 1
C25_Witness ==
    /\ BuiltV
    /\ pc = "loop"
    /\ args = <<50>>
    /\ locals.ks = <<50>>
    /\ locals.cache[12] = 8
    /\ Processed = {0, 1, 2, 3, 5, 12}

(***************************************************************************)
(* Q_moebius pass by pass of its loop.  locals.block is the array,         *)
(* locals.ps the primes the loop has still to take and locals.P the primes *)
(* it has processed.                                                       *)
(***************************************************************************)
\* Q_moebius, lines 820-823: the bound, the array and the primes of the loop
Enter_Q_moebius ==
    /\ pc = "idle"
    /\ op' = "Q_moebius"
    /\ args' = <<input.x>>
    /\ LET n == input.x
       IN  IF ~Ok(integer_sqrt(n))
           THEN Finish(integer_sqrt(n)) /\ UNCHANGED locals
           ELSE /\ locals' = [block |-> [i \in 0 .. isqrt(n) - 1 |->
                                            n \div ((i + 1) * (i + 1))],
                              ps |-> primes(isqrt(n) + 1).val,
                              P |-> {}]
                /\ pc' = "loop"
                /\ UNCHANGED ret
    /\ UNCHANGED <<input, cache, calls, iter_x, iter_xs>>

\* Q_moebius, lines 823-827: one pass of the loop, or the return of the sum
Step_Q_moebius ==
    /\ pc = "loop"
    /\ op = "Q_moebius"
    /\ IF locals.ps = <<>>
       THEN Finish(Return(np_sum(locals.block))) /\ UNCHANGED locals
       ELSE /\ locals' = [block |-> Q_moebius_body(locals.block, Head(locals.ps)),
                          ps |-> Tail(locals.ps),
                          P |-> locals.P \cup {Head(locals.ps)}]
            /\ UNCHANGED <<ret, pc>>
    /\ UNCHANGED <<input, op, args, cache, calls, iter_x, iter_xs>>

NextMoebius ==
    \/ Enter_Q_moebius
    \/ Step_Q_moebius

SpecMoebius == InitCount /\ [][NextMoebius]_vars

\* the entry for d once the primes of the set S have been processed
PartialMoebius(n, d, S) ==
    IF \E q \in S : d % (q * q) = 0 THEN 0
    ELSE IF Cardinality({q \in S : d % q = 0}) % 2 = 0
    THEN n \div (d * d)
    ELSE 0 - n \div (d * d)

\* after the loop of Q_moebius(n) has processed the primes P the entry for
\* each d in 1..integer_sqrt(n) is PartialMoebius(n, d, P), and after the
\* last prime it is mu(d) * floor(n / d^2)
EntriesFollowPrimes ==
    (op = "Q_moebius" /\ pc # "idle" /\ Ok(integer_sqrt(args[1]))) =>
        LET n == args[1]
        IN  /\ DOMAIN locals.block = 0 .. FloorSqrt(n) - 1
            /\ \A d \in 1 .. FloorSqrt(n) :
                   /\ locals.block[d - 1] = PartialMoebius(n, d, locals.P)
                   /\ locals.ps = <<>> =>
                          locals.block[d - 1] = mu(d) * (n \div (d * d))

\* a pass of the loop leaves a zero entry zero, and a pass for the prime
\* integer_sqrt(n) + 1 changes no entry
PassKeepsZeros ==
    (op = "Q_moebius" /\ pc = "loop" /\ pc' = "loop") =>
        /\ \A i \in DOMAIN locals.block :
               locals.block[i] = 0 => locals'.block[i] = 0
        /\ Head(locals.ps) = FloorSqrt(args[1]) + 1 =>
               locals'.block = locals.block

\* C26: in Q_moebius(n), after the loop has processed a set P of primes the
\* entry for each d in 1..integer_sqrt(n) is 0 if q^2 divides d for some q
\* in P and otherwise (-1)^(number of primes of P dividing d) * floor(n/d^2);
\* an entry once zeroed stays zero; after the last prime every entry is
\* mu(d) * floor(n / d^2); a prime equal to integer_sqrt(n) + 1 changes no
\* entry.
C26_EntriesAreSignedQuotients == []EntriesFollowPrimes /\ [][PassKeepsZeros]_vars

\* Q_moebius(40) after the primes 2, 3, 5 and the prime 7 = integer_sqrt(40) + 1
C26_Witness ==
    /\ op = "Q_moebius"
    /\ pc = "loop"
    /\ args = <<40>>
    /\ locals.P = {2, 3, 5, 7}
    /\ locals.ps = <<>>
    /\ locals.block = (0 :> 40) @@ (1 :> -10) @@ (2 :> -4) @@ (3 :> 0)
                          @@ (4 :> -1) @@ (5 :> 1)

\* C28: for all integers 2 <= a <= b, sieve_interval(a, b) yields, in
\* strictly increasing order and each exactly once, precisely the primes p
\* with a <= p < b; in particular no small prime is yielded twice and b is
\* never yielded.
C28_SegmentedListsHalfOpenInterval ==
    (op = "sieve_interval" /\ 2 <= args[1] /\ args[1] <= args[2]) =>
        /\ Ok(ret)
        /\ ListsPrimes(ret.val, args[1], args[2] - 1)
        /\ \A i, j \in 1 .. Len(ret.val) : i # j => ret.val[i] # ret.val[j]
        /\ args[2] \notin Elems(ret.val)

\* sieve_interval(5, 29): 5 comes from the small primes, the rest from the
\* block starting at 6, and the prime 29 is left out
C28_Witness ==
    /\ op = "sieve_interval"
    /\ args = <<5, 29>>
    /\ ret = Return(<<5, 7, 11, 13, 17, 19, 23>>)

\* C29: for every n >= 0, luo(n) returns exactly the primes <= n in strictly
\* increasing order, in particular no element greater than n.
C29_WheelSieveListsPrimes ==
    (op = "luo" /\ args[1] >= 0) =>
        /\ Ok(ret)
        /\ ListsPrimes(ret.val, 2, args[1])
        /\ \A i \in 1 .. Len(ret.val) : ret.val[i] <= args[1]

\* luo(1) returns [2, 3]
C29_Witness ==
    /\ op = "luo"
    /\ args = <<1>>
    /\ ret = Return(<<2, 3>>)

(***************************************************************************)
(* A session of Q_memo calls by a caller that holds a dict of its own,     *)
(* input.c, and passes it as cache in some calls and not in others.        *)
(***************************************************************************)
\* calls in a session of the caller with its own dict
MaxOwnCalls == 2

\* the dicts the caller may start with
OwnDicts == {EmptyDict, (1 :> 1), (2 :> 2) @@ (5 :> 4)}

InitOwn ==
    /\ input \in [x : {0}, c : OwnDicts]
    /\ Fresh

\* Q_memo(x, cache=input.c)
Next_Q_memo_own ==
    \E x \in -MaxNeg .. MaxMemoX :
        /\ calls < MaxOwnCalls
        /\ op' = "Q_memo"
        /\ args' = <<x, input.c>>
        /\ ret' = Q_memo_own(x, input.c, cache).ret
        /\ input' = [x |-> x, c |-> Q_memo_own(x, input.c, cache).own]
        /\ cache' = Q_memo_own(x, input.c, cache).cache
        /\ calls' = calls + 1
        /\ UNCHANGED <<pc, iter_x, iter_xs, locals>>

\* Q_memo(x) between the caller's calls with its own dict
Next_Q_memo_default ==
    \E x \in -MaxNeg .. MaxMemoX :
        /\ calls < MaxOwnCalls
        /\ input' = [input EXCEPT !.x = x]
        /\ Do_Q_memo(x)

NextOwn ==
    \/ Next_Q_memo_own
    \/ Next_Q_memo_default

SpecOwn == InitOwn /\ [][NextOwn]_vars

\* the step is a call Q_memo(x, cache=c) with the caller's dict
OwnCall == op' = "Q_memo" /\ Len(args') = 2 /\ calls' = calls + 1

\* the sub-problems x // k**2 of Q_memo(x), in the order of the sum
SubProblems(x) ==
    [j \in 1 .. FloorSqrt(x) - 1 |-> x \div ((j + 1) * (j + 1))]

\* a call with the caller's dict c adds at most the key x to c and changes
\* no entry of it; the default dict keeps its entries, and when x is not in
\* c it holds every sub-problem afterwards, the result being x minus the sum
\* of those entries of the default dict
OwnCallFrame ==
    OwnCall =>
        LET x == args'[1]
            c == input.c
        IN  /\ args'[2] = c
            /\ DOMAIN input'.c \subseteq DOMAIN c \cup {x}
            /\ \A k \in DOMAIN c : input'.c[k] = c[k]
            /\ DOMAIN cache \subseteq DOMAIN cache'
            /\ \A k \in DOMAIN cache : cache'[k] = cache[k]
            /\ (x \notin DOMAIN c /\ x >= 0) =>
                   /\ Elems(SubProblems(x)) \subseteq DOMAIN cache'
                   /\ (DOMAIN cache' \ DOMAIN cache) \subseteq (1 .. x - 1)
                   /\ ret' = Return(x - SumSeq([j \in DOMAIN SubProblems(x) |->
                                                   cache'[SubProblems(x)[j]]]))
                   /\ input'.c = DictSet(c, x, ret'.val)
            /\ (x \in DOMAIN c \/ x < 0) => cache' = cache /\ input'.c = c

\* C30: when Q_memo(x, cache=c) is called with a dict c of the caller, the
\* only key the call can add to c is x; every sub-problem result is looked
\* up in and written to the shared default dict, which grows although the
\* caller supplied its own.
C30_SubproblemsBypassOwnCache == [][OwnCallFrame]_vars

\* Q_memo(20, cache={}) as the first call: the caller's dict gets 20 only,
\* the default dict gets 5 and 2
C30_Witness ==
    /\ op = "Q_memo"
    /\ calls = 1
    /\ args = <<20, EmptyDict>>
    /\ ret = Return(13)
    /\ input.c = (20 :> 13)
    /\ cache = (1 :> 1) @@ (2 :> 2) @@ (5 :> 4)

(***************************************************************************)
(* The block loops of sieve_interval and Q_segmented in the order of the   *)
(* code: ascending starts.  Q_segmented runs pass by pass.  sieve_interval *)
(* is a generator: g = sieve_interval(a, b) runs no line, every next(g)    *)
(* runs it up to its next yield (line 325 or 335), where it is suspended,  *)
(* or to its end; list(sieve_interval(a, b)) runs it to its end in one     *)
(* call.  input.consumer says which of the two the caller does.            *)
(* locals.ps holds the small primes (resp. the squares of the primes),     *)
(* locals.starts the range of the block loop, locals.pending the starts    *)
(* still to come, locals.out what the generator has yielded so far (resp.  *)
(* locals.count the running count), and locals.blocks, for every pass      *)
(* begun, the size of its array, the offsets multiple - start at which the *)
(* slices block[offset::p] = False begin, and its nonzero: the indices     *)
(* np.flatnonzero found (resp. the number np.count_nonzero found).  Of the *)
(* generator, locals.at is where it is suspended: "start" (no line run),   *)
(* "first" (line 325, locals.i the index of the next small prime), "block" *)
(* (line 335 in the pass at locals.start, locals.k the index of the next   *)
(* element of nonzero), "range" (line 327, between two passes) or "end".   *)
(***************************************************************************)
\* length of the last block of a range that exceeds one block
MaxTail == 8

\* arguments whose range needs two and three blocks: 1001 and 1415 are
\* integer_sqrt(b) + 1 for these b, the first start of sieve_interval
LargeInputs ==
    {[a |-> 2, b |-> sieve_block_size + 1001 + MaxTail, n |-> Q_block_size + MaxTail,
      consumer |-> "list"],
     [a |-> 2, b |-> 2 * sieve_block_size + 1415 + MaxTail, n |-> MaxTail,
      consumer |-> "list"]}

\* a, b are the arguments of sieve_interval, n is the argument of
\* Q_segmented, consumer is what the caller does with the generator
InitBlocks ==
    /\ input \in {[a |-> a, b |-> b, n |-> b, consumer |-> c] :
                      a \in 2 .. MaxA, b \in -MaxNeg .. MaxP, c \in {"next", "list"}}
                     \cup LargeInputs
    /\ Fresh

\* the locals of a block loop before its first pass
BlockLoop(ps, starts) ==
    [ps |-> ps, starts |-> starts, pending |-> starts, blocks |-> EmptyDict,
     out |-> <<>>, count |-> 0]

\* the generator before its first next()
Created == [at |-> "start"]

\* sieve_interval, lines 319-321 and the ranges of the two loops: the
\* generator at the head of the first loop
sieve_interval_loops(a, b, small_primes) ==
    [at |-> "first", i |-> 1, k |-> 1, start |-> 0]
        @@ BlockLoop(small_primes, range(Max(isqrt(b) + 1, a), b, sieve_block_size))

\* [p**2 for p in ps]
Squares(ps) == <<>> \o [j \in 1 .. Len(ps) |-> ps[j] * ps[j]]

\* g = sieve_interval(a, b): the generator is created, none of its lines
\* has run
Enter_sieve_interval ==
    /\ pc = "idle"
    /\ input.consumer = "next"
    /\ op' = "sieve_interval"
    /\ args' = <<input.a, input.b>>
    /\ locals' = Created
    /\ pc' = "loop"
    /\ UNCHANGED <<input, ret, cache, calls, iter_x, iter_xs>>

\* sieve_interval, lines 328-333: the pass for start up to nonzero; the
\* generator stands before the first yield of the pass
sieve_interval_block(l, start, size, offsets, nonzero) ==
    [l EXCEPT !.pending = Tail(@),
              !.blocks = DictSet(@, start,
                  [size |-> size, offsets |-> offsets, nonzero |-> nonzero]),
              !.start = start,
              !.k = 1,
              !.at = "block"]

\* sieve_interval, lines 328-333 for given offsets
sieve_interval_marked(l, start, size, offsets) ==
    sieve_interval_block(l, start, size, offsets,
        <<>> \o flatnonzero_sized(mark_slices(np_ones(size), size, offsets, l.ps), size))

\* sieve_interval, lines 327-333: the pass for the next start of the range
sieve_interval_pass(l, b) ==
    sieve_interval_marked(l, Head(l.pending),
                          Min(sieve_block_size, b - Head(l.pending)),
                          <<>> \o slice_offsets(Head(l.pending), l.ps))

\* sieve_interval resumed in the block loop, lines 327-335: up to the next
\* yield of line 335, through the passes that find nothing, or to the end
\* of the range
RECURSIVE resume_blocks(_, _)
resume_blocks(l, b) ==
    IF l.at = "block" /\ l.k <= Len(l.blocks[l.start].nonzero)
    THEN [l EXCEPT !.out = Append(@, l.start + l.blocks[l.start].nonzero[l.k]),
                   !.k = @ + 1]
    ELSE IF l.pending = <<>> THEN [l EXCEPT !.at = "end"]
    ELSE resume_blocks(sieve_interval_pass(l, b), b)

\* the indices from l.i on of the small primes the first loop yields
FirstLeft(l, a, b) ==
    { j \in l.i .. Len(l.ps) : a <= l.ps[j] /\ l.ps[j] < b }

\* sieve_interval resumed in the first loop, lines 323-325: up to the next
\* yield of line 325, or on into the block loop
resume_first(l, a, b) ==
    IF FirstLeft(l, a, b) # {}
    THEN LET j == CHOOSE j \in FirstLeft(l, a, b) :
                      \A h \in FirstLeft(l, a, b) : j <= h
         IN  [l EXCEPT !.out = Append(@, l.ps[j]), !.i = j + 1]
    ELSE resume_blocks([l EXCEPT !.at = "range", !.i = Len(l.ps) + 1], b)

\* the generator resumed where it is suspended
resume(l, a, b) ==
    IF l.at = "first" THEN resume_first(l, a, b) ELSE resume_blocks(l, b)

\* next(g) hands the caller the value yielded, or StopIteration at the end
Suspend(l) ==
    /\ locals' = l
    /\ IF l.at = "end"
       THEN Finish(Raise("StopIteration"))
       ELSE ret' = Return(l.out[Len(l.out)]) /\ pc' = "loop"

\* next(g): the generator runs from where it is suspended to its next
\* yield; the first next() runs lines 319-320 and may raise their errors
Next_sieve_interval ==
    /\ pc = "loop"
    /\ op = "sieve_interval"
    /\ LET a == args[1]
           b == args[2]
       IN  IF locals.at = "start"
           THEN IF ~Ok(integer_sqrt(b))
                THEN Finish(integer_sqrt(b)) /\ UNCHANGED locals
                ELSE IF ~Ok(luo(isqrt(b)))
                THEN Finish(luo(isqrt(b))) /\ UNCHANGED locals
                ELSE Suspend(resume(sieve_interval_loops(a, b, luo(isqrt(b)).val), a, b))
           ELSE Suspend(resume(locals, a, b))
    /\ UNCHANGED <<input, op, args, cache, calls, iter_x, iter_xs>>

\* the first loop run to its end: everything it yields
list_first(l, a, b) ==
    [l EXCEPT !.out = SelectSeq(l.ps, LAMBDA p : a <= p /\ p < b),
              !.i = Len(l.ps) + 1,
              !.at = "range"]

\* a pass run to its end: everything it yields, lines 334-335
list_block(l) ==
    [l EXCEPT !.out = @ \o Offset(l.start, l.blocks[l.start].nonzero),
              !.k = Len(l.blocks[l.start].nonzero) + 1]

\* the block loop run to its end
RECURSIVE list_blocks(_, _)
list_blocks(l, b) ==
    IF l.pending = <<>> THEN [l EXCEPT !.at = "end"]
    ELSE list_blocks(list_block(sieve_interval_pass(l, b)), b)

\* list(g) has everything the generator yielded
Listed(l) ==
    /\ locals' = l
    /\ Finish(Return(l.out))

\* list(sieve_interval(a, b)): the generator is created and run to its end
\* in one call
List_sieve_interval ==
    /\ pc = "idle"
    /\ input.consumer = "list"
    /\ op' = "sieve_interval"
    /\ args' = <<input.a, input.b>>
    /\ LET a == input.a
           b == input.b
       IN  IF ~Ok(integer_sqrt(b))
           THEN Finish(integer_sqrt(b)) /\ UNCHANGED locals
           ELSE IF ~Ok(luo(isqrt(b)))
           THEN Finish(luo(isqrt(b))) /\ UNCHANGED locals
           ELSE Listed(list_blocks(
                    list_first(sieve_interval_loops(a, b, luo(isqrt(b)).val), a, b), b))
    /\ UNCHANGED <<input, cache, calls, iter_x, iter_xs>>

\* Q_segmented, lines 522-526: the squares of the primes and the range of
\* the block loop
Enter_Q_segmented ==
    /\ pc = "idle"
    /\ op' = "Q_segmented"
    /\ args' = <<input.n>>
    /\ LET n == input.n
       IN  IF ~Ok(integer_sqrt(n))
           THEN Finish(integer_sqrt(n)) /\ UNCHANGED locals
           ELSE /\ locals' = BlockLoop(Squares(primes(isqrt(n) + 1).val),
                                        range(1, n + 1, Q_block_size))
                /\ pc' = "loop"
                /\ UNCHANGED ret
    /\ UNCHANGED <<input, cache, calls, iter_x, iter_xs>>

\* Q_segmented, line 532, given np.count_nonzero(block)
Q_segmented_counted(l, start, size, offsets, nonzero) ==
    [l EXCEPT !.pending = Tail(@),
              !.blocks = DictSet(@, start,
                  [size |-> size, offsets |-> offsets, nonzero |-> nonzero]),
              !.count = @ + nonzero]

\* Q_segmented, lines 527-532: one pass of the block loop
Q_segmented_pass(l, start, size, offsets) ==
    Q_segmented_counted(l, start, size, offsets,
        count_nonzero_sized(mark_slices(np_ones(size), size, offsets, l.ps), size))

\* Q_segmented, lines 526-534: the next pass of the block loop, or return
\* count when the range is exhausted
Block_Q_segmented ==
    /\ pc = "loop"
    /\ op = "Q_segmented"
    /\ IF locals.pending = <<>>
       THEN Finish(Return(locals.count)) /\ UNCHANGED locals
       ELSE /\ locals' = Q_segmented_pass(locals, Head(locals.pending),
                             Min(Q_block_size, args[1] - Head(locals.pending) + 1),
                             <<>> \o slice_offsets(Head(locals.pending), locals.ps))
            /\ UNCHANGED <<ret, pc>>
    /\ UNCHANGED <<input, op, args, cache, calls, iter_x, iter_xs>>

NextBlocks ==
    \/ Enter_sieve_interval
    \/ Next_sieve_interval
    \/ List_sieve_interval
    \/ Enter_Q_segmented
    \/ Block_Q_segmented

SpecBlocks == InitBlocks /\ [][NextBlocks]_vars

(***************************************************************************)
(* The passes of the block loops taken in any order.  The code runs them   *)
(* in ascending order of start, one after the other (SpecBlocks); here a   *)
(* scheduler decides which pass runs next, as a reordering or a            *)
(* distribution of the blocks over workers would.  Q_segmented: every pass *)
(* is the body of the loop for a start not yet taken.  sieve_interval is   *)
(* the generator of SpecBlocks: g = sieve_interval(a, b) runs no line,     *)
(* next(g) runs up to the next yield, g.close() ends it where it is        *)
(* suspended, list(g) runs it to its end.  Its first loop runs as in the   *)
(* code; in the block loop every next(g) either begins the pass of a start *)
(* not yet taken (lines 328-333) and runs it to its first yield, or        *)
(* resumes a pass already begun at its yield of line 335, so that passes   *)
(* interleave yield by yield; a pass that finds nothing is run through     *)
(* without a suspension.  locals.order records the starts in the order     *)
(* their passes were begun, locals.frames, for every pass begun, the index *)
(* k of the next element of its nonzero to yield; locals.start and         *)
(* locals.k are those of the pass that yielded last.  input.nexts is how   *)
(* often at most the caller calls next(g).                                 *)
(***************************************************************************)
\* how often at most the caller of a generator over two blocks calls next()
MaxNexts == 4

\* arguments whose range needs two blocks; 1001 is integer_sqrt(b) + 1, the
\* first start of sieve_interval, and from a = 1001 on the first loop
\* yields nothing
LargeSchedules ==
    {[a |-> 2, b |-> sieve_block_size + 1001 + MaxTail, n |-> Q_block_size + MaxTail,
      consumer |-> "list", nexts |-> MaxNexts],
     [a |-> 1001, b |-> sieve_block_size + 1001 + MaxTail, n |-> MaxTail,
      consumer |-> "next", nexts |-> MaxNexts]}

\* a, b are the arguments of sieve_interval, n is the argument of
\* Q_segmented, consumer is what the caller does with the generator and
\* nexts how many values at most it takes with next()
InitAnyOrder ==
    /\ input \in {[a |-> a, b |-> b, n |-> b, consumer |-> c, nexts |-> MaxP] :
                      a \in 2 .. MaxA, b \in -MaxNeg .. MaxP, c \in {"next", "list"}}
                     \cup LargeSchedules
    /\ Fresh

\* the block loop before the scheduler has begun a pass
Scheduling(l) == [order |-> <<>>, frames |-> EmptyDict] @@ l

\* the scheduler makes start the next start of the loop
Scheduled(l, start) ==
    [l EXCEPT !.pending = <<start>> \o SelectSeq(@, LAMBDA s : s # start)]

\* the pass for start has begun
Ordered(l, start) == [l EXCEPT !.order = Append(@, start)]

\* the h-th pending start, counted from the last
FromLast(pending, h) == pending[Len(pending) + 1 - h]

\* sieve_interval, lines 328-333 for the start the scheduler picks: the
\* pass stands before its first yield
sieve_interval_scheduled(l, b, start) ==
    [Ordered(sieve_interval_pass(Scheduled(l, start), b), start)
        EXCEPT !.frames = DictSet(@, start, 1)]

\* sieve_interval, line 335 in the pass at start: yield p for the next
\* element of its nonzero
sieve_interval_yield(l, start) ==
    [l EXCEPT !.out = Append(@, start + l.blocks[start].nonzero[l.frames[start]]),
              !.frames = DictSet(@, start, l.frames[start] + 1),
              !.start = start,
              !.k = l.frames[start] + 1,
              !.at = "block"]

\* the passes begun that have not yielded all they found
Unfinished(l) ==
    { s \in DOMAIN l.frames : l.frames[s] <= Len(l.blocks[s].nonzero) }

\* sieve_interval resumed in the block loop, lines 327-335: every way to
\* its next yield of line 335, in a pass begun or in one begun now, through
\* the passes that find nothing, or to its end when every pass has yielded
\* all it found
RECURSIVE resume_scheduled(_, _)
RECURSIVE begun(_, _, _)
resume_scheduled(l, b) ==
    IF Unfinished(l) = {} /\ Len(l.pending) = 0
    THEN {[l EXCEPT !.at = "end"]}
    ELSE { sieve_interval_yield(l, s) : s \in Unfinished(l) }
             \cup UNION { begun(sieve_interval_scheduled(l, b, FromLast(l.pending, h)),
                                b, FromLast(l.pending, h)) :
                              h \in 1 .. Len(l.pending) }

\* the pass at start, just begun, yields its first element, or has found
\* nothing and the generator runs on
begun(l, b, start) ==
    IF Len(l.blocks[start].nonzero) > 0
    THEN {sieve_interval_yield(l, start)}
    ELSE resume_scheduled(l, b)

\* the generator resumed where it is suspended: in the first loop as the
\* code runs it, in the block loop as the scheduler decides
resume_any_order(l, a, b) ==
    IF l.at = "first" /\ FirstLeft(l, a, b) # {}
    THEN {resume_first(l, a, b)}
    ELSE resume_scheduled([l EXCEPT !.i = Len(l.ps) + 1], b)

\* next(g): the generator runs from where it is suspended to its next
\* yield; the first next() runs lines 319-320 and may raise their errors
Next_any_order ==
    /\ pc = "loop"
    /\ op = "sieve_interval"
    /\ locals.at # "start" => Len(locals.out) < input.nexts
    /\ LET a == args[1]
           b == args[2]
       IN  IF locals.at = "start"
           THEN IF ~Ok(integer_sqrt(b))
                THEN Finish(integer_sqrt(b)) /\ UNCHANGED locals
                ELSE IF ~Ok(luo(isqrt(b)))
                THEN Finish(luo(isqrt(b))) /\ UNCHANGED locals
                ELSE \E l \in resume_any_order(
                                  Scheduling(sieve_interval_loops(a, b, luo(isqrt(b)).val)),
                                  a, b) :
                         Suspend(l)
           ELSE \E l \in resume_any_order(locals, a, b) : Suspend(l)
    /\ UNCHANGED <<input, op, args, cache, calls, iter_x, iter_xs>>

\* g.close(): the generator ends where it is suspended (or before its
\* first line), no further line runs; close() returns None
Close_sieve_interval ==
    /\ pc = "loop"
    /\ op = "sieve_interval"
    /\ locals' = [locals EXCEPT !.at = "closed"]
    /\ Finish(Return("None"))
    /\ UNCHANGED <<input, op, args, cache, calls, iter_x, iter_xs>>

\* the pass at start has yielded all it found
Exhausted(l, start) ==
    [l EXCEPT !.frames = DictSet(@, start, Len(l.blocks[start].nonzero) + 1)]

\* the orders in which the starts of a range can be taken
Orders(starts) ==
    { <<>> \o f : f \in { g \in [1 .. Len(starts) -> Elems(starts)] :
                            \A i, j \in 1 .. Len(starts) : g[i] = g[j] => i = j } }

\* the block loop run to its end, pass after pass in the order given
RECURSIVE list_scheduled(_, _, _)
list_scheduled(l, b, order) ==
    IF Len(order) = 0 THEN [l EXCEPT !.at = "end"]
    ELSE list_scheduled(
             Exhausted(list_block(sieve_interval_scheduled(l, b, Head(order))),
                       Head(order)),
             b, Tail(order))

\* list(sieve_interval(a, b)): the generator is created and run to its end
\* in one call, its passes in the order the scheduler decides
List_any_order ==
    /\ pc = "idle"
    /\ input.consumer = "list"
    /\ op' = "sieve_interval"
    /\ args' = <<input.a, input.b>>
    /\ LET a == input.a
           b == input.b
       IN  IF ~Ok(integer_sqrt(b))
           THEN Finish(integer_sqrt(b)) /\ UNCHANGED locals
           ELSE IF ~Ok(luo(isqrt(b)))
           THEN Finish(luo(isqrt(b))) /\ UNCHANGED locals
           ELSE \E order \in Orders(range(Max(isqrt(b) + 1, a), b, sieve_block_size)) :
                    Listed(list_scheduled(
                        list_first(Scheduling(sieve_interval_loops(a, b, luo(isqrt(b)).val)),
                                   a, b),
                        b, order))
    /\ UNCHANGED <<input, cache, calls, iter_x, iter_xs>>

\* Q_segmented, lines 522-524: the squares of the primes; the passes of the
\* block loop are yet to be scheduled
Start_Q_segmented ==
    /\ pc = "idle"
    /\ op' = "Q_segmented"
    /\ args' = <<input.n>>
    /\ LET n == input.n
       IN  IF ~Ok(integer_sqrt(n))
           THEN Finish(integer_sqrt(n)) /\ UNCHANGED locals
           ELSE /\ locals' = [order |-> <<>>]
                        @@ BlockLoop(Squares(primes(isqrt(n) + 1).val),
                                     range(1, n + 1, Q_block_size))
                /\ pc' = "loop"
                /\ UNCHANGED ret
    /\ UNCHANGED <<input, cache, calls, iter_x, iter_xs>>

\* Q_segmented, lines 527-532 for the start the scheduler picks
Q_segmented_scheduled(l, n, start) ==
    Ordered(Q_segmented_pass(Scheduled(l, start), start,
                             Min(Q_block_size, n - start + 1),
                             <<>> \o slice_offsets(start, l.ps)), start)

\* Q_segmented, lines 527-532 for any start not yet taken, or return count
\* when none is left
Pass_Q_segmented ==
    /\ pc = "loop"
    /\ op = "Q_segmented"
    /\ IF locals.pending = <<>>
       THEN Finish(Return(locals.count)) /\ UNCHANGED locals
       ELSE /\ \E h \in 1 .. Len(locals.pending) :
                   locals' = Q_segmented_scheduled(locals, args[1],
                                                   FromLast(locals.pending, h))
            /\ UNCHANGED <<ret, pc>>
    /\ UNCHANGED <<input, op, args, cache, calls, iter_x, iter_xs>>

NextAnyOrder ==
    \/ Enter_sieve_interval
    \/ Next_any_order
    \/ Close_sieve_interval
    \/ List_any_order
    \/ Start_Q_segmented
    \/ Pass_Q_segmented

SpecAnyOrder == InitAnyOrder /\ [][NextAnyOrder]_vars

\* the flags of the block of the pass at start: np.ones(size) with the
\* slices of the pass set to False
BlockFlags(start) ==
    mark_slices(np_ones(locals.blocks[start].size), locals.blocks[start].size,
                locals.blocks[start].offsets, locals.ps)

\* a segmented form has reached its block loop
InBlocks ==
    /\ op \in {"sieve_interval", "Q_segmented"}
    /\ "blocks" \in DOMAIN locals

\* the range the block loop is to sieve, Lo <= m < Hi
Lo == IF op = "sieve_interval" THEN Max(isqrt(args[2]) + 1, args[1]) ELSE 1

Hi == IF op = "sieve_interval" THEN args[2] ELSE args[1] + 1

\* the starts of the passes made so far, and the end of the block at start
Taken == DOMAIN locals.blocks

BlockEnd(start) == start + locals.blocks[start].size

\* the passes made are those of locals.order, each start once; their blocks
\* lie in the range and are pairwise disjoint; and once no start is pending
\* they leave no gap: the range is empty, or a block begins at Lo and every
\* block ends at Hi or where another begins
BlocksPartitionRange ==
    /\ Taken \cup Elems(locals.pending) = Elems(locals.starts)
    /\ Taken \cap Elems(locals.pending) = {}
    /\ Taken = Elems(locals.order)
    /\ Len(locals.order) = Cardinality(Taken)
    /\ \A s \in Taken :
           /\ Lo <= s /\ s < BlockEnd(s) /\ BlockEnd(s) <= Hi
           /\ \A t \in Taken : s < t => BlockEnd(s) <= t
    /\ locals.pending = <<>> =>
           IF Lo >= Hi THEN Taken = {}
           ELSE /\ Lo \in Taken
                /\ \A s \in Taken : BlockEnd(s) = Hi \/ BlockEnd(s) \in Taken

\* in every pass the marking for p begins at the smallest multiple of p
\* that is >= the start of the block
MarkingStartsAtFirstMultiple ==
    \A s \in Taken :
        \A j \in 1 .. Len(locals.ps) :
            LET p == locals.ps[j]
                multiple == s + locals.blocks[s].offsets[j]
            IN  multiple >= s /\ multiple < s + p /\ multiple % p = 0

\* the reference: by trial division up to the root, m is prime, resp.
\* squarefree
PrimeByRoot(m) == m >= 2 /\ \A d \in 2 .. isqrt(m) : m % d # 0

SquarefreeByRoot(m) == m >= 1 /\ \A d \in 2 .. isqrt(m) : m % (d * d) # 0

\* the reference for a whole range: the Moebius function by trial division,
\* and the number of squarefree m <= n as the sum of mu(d) * (n div d^2)
\* over d <= sqrt(n), summed by halves of the range of d
MuByRoot(d) ==
    IF \E q \in 2 .. isqrt(d) : d % (q * q) = 0 THEN 0
    ELSE IF Cardinality({ q \in 2 .. d : d % q = 0 /\ PrimeByRoot(q) }) % 2 = 0
         THEN 1 ELSE -1

RECURSIVE MuSum(_, _, _)
MuSum(n, lo, hi) ==
    IF lo > hi THEN 0
    ELSE IF lo = hi THEN MuByRoot(lo) * (n \div (lo * lo))
    ELSE MuSum(n, lo, (lo + hi) \div 2) + MuSum(n, (lo + hi) \div 2 + 1, hi)

SquarefreeUpTo(n) == IF n <= 0 THEN 0 ELSE MuSum(n, 1, isqrt(n))

\* what a pass on the block at start has to find, by the reference, whatever
\* ran before it: for sieve_interval the indices of the primes of the block
\* that are not in ps (luo(1) and luo(2) hold 3, so a block that starts at 2
\* or 3 flags an element of ps, which the first loop has yielded), for
\* Q_segmented the number of squarefree numbers of the block
PrimeIndices(start, size) ==
    SelectSeq([j \in 1 .. size |-> j - 1],
              LAMBDA i : PrimeByRoot(start + i) /\ start + i \notin Elems(locals.ps))

SquarefreeIn(start, size) == SquarefreeUpTo(start + size - 1) - SquarefreeUpTo(start - 1)

\* the indices in lo .. hi among the indices a pass found
FoundIn(nonzero, lo, hi) ==
    { nonzero[j] : j \in { h \in 1 .. Len(nonzero) : lo <= nonzero[h] /\ nonzero[h] <= hi } }

\* the flags of a block are those its start, its size and ps fix, whatever
\* the passes before it did.  A block of at most MaxP flags: flag i is True
\* exactly when no p of ps divides start + i, and the pass found what the
\* reference finds.  A full block of sieve_interval: the pass found
\* ascending indices of the block, at both ends of the block (MaxP flags
\* each) exactly the primes, and as many as there are primes in the block
\* (78405 in 1001 .. 1001000, which is pi(1001000) - pi(1000)).
\* A full block of Q_segmented: the pass counted what the reference counts.
FlagsFollowStart ==
    \A s \in Taken :
        LET size == locals.blocks[s].size
            nonzero == locals.blocks[s].nonzero
        IN  IF op = "Q_segmented"
            THEN /\ nonzero = SquarefreeIn(s, size)
                 /\ size <= MaxP =>
                        /\ nonzero = Cardinality({ i \in 0 .. size - 1 :
                                                     SquarefreeByRoot(s + i) })
                        /\ \A i \in 0 .. size - 1 :
                               BlockFlags(s)[i] <=> SquarefreeByRoot(s + i)
            ELSE IF size <= MaxP
            THEN /\ nonzero = PrimeIndices(s, size)
                 /\ \A i \in 0 .. size - 1 :
                        BlockFlags(s)[i] <=>
                            \A j \in 1 .. Len(locals.ps) : (s + i) % locals.ps[j] # 0
            ELSE /\ StrictlyIncreasing(nonzero)
                 /\ nonzero[1] >= 0 /\ nonzero[Len(nonzero)] < size
                 /\ FoundIn(nonzero, 0, MaxP - 1)
                        = { i \in 0 .. MaxP - 1 : PrimeByRoot(s + i) }
                 /\ FoundIn(nonzero, size - MaxP, size - 1)
                        = { i \in size - MaxP .. size - 1 : PrimeByRoot(s + i) }
                 /\ s = 1001 /\ size = sieve_block_size =>
                        Len(nonzero) = 78405

\* what the passes at the given starts yield, in the order given
RECURSIVE BlockYields(_)
BlockYields(starts) ==
    IF starts = <<>> THEN <<>>
    ELSE Offset(Head(starts), locals.blocks[Head(starts)].nonzero)
             \o BlockYields(Tail(starts))

\* the first loop's primes
FirstYields == SelectSeq(locals.ps, LAMBDA p : args[1] <= p /\ p < args[2])

\* of what the generator has yielded in its block loop, what lies in the
\* block at start
YieldedIn(start) ==
    SelectSeq(SubSeq(locals.out, Len(FirstYields) + 1, Len(locals.out)),
              LAMBDA p : start <= p /\ p < BlockEnd(start))

\* the first k - 1 primes the pass at start found
FoundBefore(start, k) ==
    <<>> \o [j \in 1 .. k - 1 |-> start + locals.blocks[start].nonzero[j]]

\* whatever the order and the interleaving of the passes: the generator
\* has yielded the first loop's primes and then, of each block begun, the
\* primes the pass found, in their order, up to where the pass stands, and
\* nothing else; at its end every pass has yielded all it found, and the
\* primes of the blocks in ascending order of start are what
\* list(sieve_interval(a, b)) gives.  The count of Q_segmented is returned
\* when all passes are made and is the number of squarefree numbers up to
\* n and what Q_segmented(n) gives (the calls as the code runs them, for
\* bounds up to MaxP)
ResultIgnoresOrder ==
    /\ op = "sieve_interval" =>
           /\ DOMAIN locals.frames = Taken
           /\ IF Len(locals.out) <= Len(FirstYields)
              THEN locals.out = SubSeq(FirstYields, 1, Len(locals.out))
              ELSE SubSeq(locals.out, 1, Len(FirstYields)) = FirstYields
           /\ \A s \in Taken :
                  /\ locals.frames[s] \in 1 .. Len(locals.blocks[s].nonzero) + 1
                  /\ YieldedIn(s) = FoundBefore(s, locals.frames[s])
           /\ \A j \in Len(FirstYields) + 1 .. Len(locals.out) :
                  \E s \in Taken : s <= locals.out[j] /\ locals.out[j] < BlockEnd(s)
           /\ locals.at \in {"first", "block"} =>
                  /\ pc = "loop"
                  /\ ret = Return(locals.out[Len(locals.out)])
           /\ locals.at = "end" =>
                  /\ pc = "done"
                  /\ locals.pending = <<>>
                  /\ \A s \in Taken :
                         locals.frames[s] = Len(locals.blocks[s].nonzero) + 1
                  /\ ret = IF input.consumer = "list" THEN Return(locals.out)
                           ELSE Raise("StopIteration")
                  /\ Hi <= MaxP + 1 =>
                         Return(FirstYields \o BlockYields(locals.starts))
                             = sieve_interval(args[1], args[2])
    /\ op = "Q_segmented" =>
           /\ pc = "done" =>
                  /\ locals.pending = <<>>
                  /\ ret = Return(locals.count)
                  /\ locals.count = SquarefreeUpTo(args[1])
                  /\ Hi <= MaxP + 1 => ret = Q_segmented(args[1])

\* C27: in sieve_interval and Q_segmented the blocks are pairwise disjoint
\* and cover exactly the sieved range, the marking of a block starts at the
\* smallest multiple of p (resp. p^2) >= its start, and the flags of a block
\* follow from its start, the bound and the primes alone, so the blocks
\* taken in any order, their passes interleaved, give the same primes per
\* block and the same total count.
C27_BlocksAreIndependent ==
    InBlocks =>
        /\ BlocksPartitionRange
        /\ MarkingStartsAtFirstMultiple
        /\ FlagsFollowStart
        /\ ResultIgnoresOrder

\* Q_segmented(2**20 + 8) has returned with its second block taken before
\* its first: the block 2**20 + 1..2**20 + 8 counted 5, then the full block
\* 1..2**20 counted 637461
C27_Witness ==
    /\ op = "Q_segmented"
    /\ pc = "done"
    /\ args = <<Q_block_size + MaxTail>>
    /\ locals.starts = <<1, Q_block_size + 1>>
    /\ locals.order = <<Q_block_size + 1, 1>>
    /\ locals.blocks[1].size = Q_block_size
    /\ locals.blocks[1].nonzero = 637461
    /\ locals.blocks[Q_block_size + 1].size = MaxTail
    /\ locals.blocks[Q_block_size + 1].nonzero = 5
    /\ ret = Return(637466)

====
